---- MODULE Spec2Model ----
(***************************************************************************)
(* Model of klavier-helper's ordered, event-recording containers:          *)
(*   Store    (src/src/store.rs)      sorted Vec<(K, T)> with unique keys  *)
(*   BagStore (src/src/bag_store.rs)  BTreeMap<K, Vec<T>> plus a counter   *)
(* Every public mutating method is one action.  Indices are 0-based as in  *)
(* the Rust source; a TLA+ sequence position is the Rust index plus one.   *)
(***************************************************************************)
EXTENDS Integers, Sequences, FiniteSets, TLC

VARIABLES
    target,       \* which container this behaviour exercises: "store" | "bag"
    hold_events,  \* the hold_events flag given to new()
    store,        \* Store.store : Vec<(K, T)>
    events,       \* Store.events : the recorded StoreEvents (stays empty when not held)
    bag,          \* BagStore.store : BTreeMap<K, Vec<T>>
    count,        \* BagStore.count
    bag_events,   \* BagStore.events
    call,         \* the last call: its method name (op) and its arguments
    ret,          \* the value the last call returned
    size,         \* Logs.size
    logs,         \* Logs.logs : VecDeque<Entry>, oldest first
    observers,    \* Logs.observers : Vec<Weak<RefCell<dyn Observer>>>
    alive,        \* the observers their owner has not dropped yet
    appended,     \* every Entry appended so far, in append order
    locator,      \* Finder: the index of its last answer
    z,            \* Sliding.z : what the underlying iterator has yet to yield
    prev,         \* Sliding.prev
    src,          \* the sequence the underlying iterator was made from
    yielded,      \* the pairs the Sliding has yielded so far
    twin          \* a second Store, built with the other hold_events flag

vars == <<target, hold_events, store, events, bag, count, bag_events, call, ret,
          size, logs, observers, alive, appended, locator, z, prev, src, yielded, twin>>

store_vars == <<store, events>>
bag_vars == <<bag, count, bag_events>>
logs_vars == <<size, logs, observers, alive, appended>>
sliding_vars == <<z, prev, src, yielded>>

----------------------------------------------------------------------------
(* Bounds of the model and the input domains.                              *)

MaxBatch == 2      \* longest batch handed to change / bulk_add / bulk_remove
MaxEvents == 2     \* a store accepts a call while its log holds fewer events
MaxCount == 3      \* a BagStore accepts an addition while it holds fewer values
MaxSize == 2       \* largest capacity given to Logs::new
MaxAppends == 3    \* entries appended to a Logs in one run
MaxObservers == 2  \* observers registered with a Logs in one run
MaxLen == 4        \* longest sequence handed to sliding

Keys == {1, 2, 3}
Values == {1, 2}
Metas == {"m1", "m2"}
BagKeys == {1, 2}

None == <<>>
Some(x) == <<x>>
OptValues == {None} \cup {Some(v) : v \in Values}

SeqsUpTo(S, n) == UNION {[1..m -> S] : m \in 0..n}

Entries == Keys \X Values

----------------------------------------------------------------------------
(* Vec primitives (0-based index i).                                       *)

InsertAt(s, i, e) == SubSeq(s, 1, i) \o <<e>> \o SubSeq(s, i + 1, Len(s))
RemoveAt(s, i) == SubSeq(s, 1, i) \o SubSeq(s, i + 2, Len(s))
SetAt(s, i, e) == [s EXCEPT ![i + 1] = e]

Ok(i) == [ok |-> TRUE, idx |-> i]
Err(i) == [ok |-> FALSE, idx |-> i]

(* slice::binary_search_by_key over the half-open index range lo..hi.      *)
RECURSIVE binary_search_by_key(_, _, _, _)
binary_search_by_key(s, key, lo, hi) ==
    IF lo >= hi THEN Err(lo)
    ELSE LET mid == lo + ((hi - lo) \div 2)
             k == s[mid + 1][1]
         IN IF k = key THEN Ok(mid)
            ELSE IF k < key THEN binary_search_by_key(s, key, mid + 1, hi)
            ELSE binary_search_by_key(s, key, lo, mid)

find(s, key) == binary_search_by_key(s, key, 0, Len(s))

----------------------------------------------------------------------------
(* StoreEvent.                                                             *)

Added(v, m) == [type |-> "Added", added |-> v, metadata |-> m]
Removed(v) == [type |-> "Removed", value |-> v]
ClearedAll == [type |-> "ClearedAll"]
BulkAddedRemoved(a, r, m) ==
    [type |-> "BulkAddedRemoved", added |-> a, removed |-> r, metadata |-> m]
Changed(ft, r, m) == [type |-> "Changed", from_to |-> ft, removed |-> r, metadata |-> m]

(* Variant of fire_event that keeps only the latest event.                  *)
fire_event_keeps_latest(log, e) == IF hold_events THEN <<e>> ELSE log

fire_event(log, e) == IF hold_events THEN Append(log, e) ELSE log

----------------------------------------------------------------------------
(* Store: the non-notifying helpers.  Each yields the new Vec and the      *)
(* value the Rust function returns.                                        *)

(* Variant of add_internal that hands back the new value on a replacement. *)
Store_add_internal_returns_new(s, key, value) ==
    LET r == find(s, key)
    IN IF r.ok
       THEN [store |-> SetAt(s, r.idx, <<key, value>>), ret |-> Some(value)]
       ELSE [store |-> InsertAt(s, r.idx, <<key, value>>), ret |-> None]

(* Variant of add_internal that pushes a new entry at the end of the Vec.  *)
Store_add_internal_push(s, key, value) ==
    LET r == find(s, key)
    IN IF r.ok
       THEN [store |-> SetAt(s, r.idx, <<key, value>>), ret |-> Some(s[r.idx + 1][2])]
       ELSE [store |-> Append(s, <<key, value>>), ret |-> None]

Store_add_internal(s, key, value) ==
    LET r == find(s, key)
    IN IF r.ok
       THEN [store |-> SetAt(s, r.idx, <<key, value>>), ret |-> Some(s[r.idx + 1][2])]
       ELSE [store |-> InsertAt(s, r.idx, <<key, value>>), ret |-> None]

Store_remove_internal(s, key) ==
    LET r == find(s, key)
    IN IF r.ok
       THEN [store |-> RemoveAt(s, r.idx), ret |-> Some(s[r.idx + 1])]
       ELSE [store |-> s, ret |-> None]

(* Store::change, first loop (lines 156-160): remove every 'from' key that *)
(* is present and pair the removed entry with its 'to'.                    *)
RECURSIVE Store_change_remove(_, _, _, _)
Store_change_remove(s, from_to, i, result) ==
    IF i > Len(from_to) THEN [store |-> s, result |-> result]
    ELSE LET r == Store_remove_internal(s, from_to[i][1])
         IN IF r.ret # None
            THEN Store_change_remove(r.store, from_to, i + 1,
                                     Append(result, <<r.ret[1], from_to[i][2]>>))
            ELSE Store_change_remove(s, from_to, i + 1, result)

(* Variant of the second loop that does not collect the displaced entries. *)
RECURSIVE Store_change_add_forgets(_, _, _, _)
Store_change_add_forgets(s, result, i, removed) ==
    IF i > Len(result) THEN [store |-> s, removed |-> removed]
    ELSE LET to == result[i][2]
             r == Store_add_internal(s, to[1], to[2])
         IN Store_change_add_forgets(r.store, result, i + 1, removed)

(* Variant of the second loop that adds the realized 'to's last to first.  *)
RECURSIVE Store_change_add_backwards(_, _, _, _)
Store_change_add_backwards(s, result, i, removed) ==
    IF i > Len(result) THEN [store |-> s, removed |-> removed]
    ELSE LET to == result[Len(result) - i + 1][2]
             r == Store_add_internal(s, to[1], to[2])
         IN Store_change_add_backwards(r.store, result, i + 1,
                IF r.ret # None THEN Append(removed, <<to[1], r.ret[1]>>) ELSE removed)

(* Store::change, second loop (lines 163-168): add every realized 'to'.    *)
RECURSIVE Store_change_add(_, _, _, _)
Store_change_add(s, result, i, removed) ==
    IF i > Len(result) THEN [store |-> s, removed |-> removed]
    ELSE LET to == result[i][2]
             r == Store_add_internal(s, to[1], to[2])
         IN Store_change_add(r.store, result, i + 1,
                IF r.ret # None THEN Append(removed, <<to[1], r.ret[1]>>) ELSE removed)

(* Variant of the loop of bulk_add that reports the new value of a         *)
(* replaced entry in place of the displaced one.                           *)
RECURSIVE Store_bulk_add_loop_reports_new(_, _, _, _)
Store_bulk_add_loop_reports_new(s, recs, i, removed) ==
    IF i > Len(recs) THEN [store |-> s, removed |-> removed]
    ELSE LET r == Store_add_internal(s, recs[i][1], recs[i][2])
         IN Store_bulk_add_loop_reports_new(r.store, recs, i + 1,
                IF r.ret # None THEN Append(removed, recs[i]) ELSE removed)

(* The loop of Store::bulk_add (lines 176-180).                            *)
RECURSIVE Store_bulk_add_loop(_, _, _, _)
Store_bulk_add_loop(s, recs, i, removed) ==
    IF i > Len(recs) THEN [store |-> s, removed |-> removed]
    ELSE LET r == Store_add_internal(s, recs[i][1], recs[i][2])
         IN Store_bulk_add_loop(r.store, recs, i + 1,
                IF r.ret # None THEN Append(removed, <<recs[i][1], r.ret[1]>>) ELSE removed)

(* Variant of the loop of bulk_remove that stops after the first key.       *)
RECURSIVE Store_bulk_remove_loop_first_only(_, _, _, _)
Store_bulk_remove_loop_first_only(s, recs, i, removed) ==
    IF i > Len(recs) \/ i > 1 THEN [store |-> s, removed |-> removed]
    ELSE LET r == Store_remove_internal(s, recs[i])
         IN Store_bulk_remove_loop_first_only(r.store, recs, i + 1,
                IF r.ret # None THEN Append(removed, r.ret[1]) ELSE removed)

(* Variant of the loop of bulk_remove that collects the removed entries    *)
(* latest first.                                                           *)
RECURSIVE Store_bulk_remove_loop_latest_first(_, _, _, _)
Store_bulk_remove_loop_latest_first(s, recs, i, removed) ==
    IF i > Len(recs) THEN [store |-> s, removed |-> removed]
    ELSE LET r == Store_remove_internal(s, recs[i])
         IN Store_bulk_remove_loop_latest_first(r.store, recs, i + 1,
                IF r.ret # None THEN <<r.ret[1]>> \o removed ELSE removed)

(* The loop of Store::bulk_remove (lines 189-193).                         *)
RECURSIVE Store_bulk_remove_loop(_, _, _, _)
Store_bulk_remove_loop(s, recs, i, removed) ==
    IF i > Len(recs) THEN [store |-> s, removed |-> removed]
    ELSE LET r == Store_remove_internal(s, recs[i])
         IN Store_bulk_remove_loop(r.store, recs, i + 1,
                IF r.ret # None THEN Append(removed, r.ret[1]) ELSE removed)

(* Variant of the retain loop that collects the removed entries latest     *)
(* first.                                                                  *)
RECURSIVE Store_retain_loop_latest_first(_, _, _, _, _)
Store_retain_loop_latest_first(s, keep, i, kept, removed) ==
    IF i > Len(s) THEN [store |-> kept, removed |-> removed]
    ELSE IF s[i][2] \notin keep
         THEN Store_retain_loop_latest_first(s, keep, i + 1, kept, <<s[i]>> \o removed)
         ELSE Store_retain_loop_latest_first(s, keep, i + 1, Append(kept, s[i]), removed)

(* Vec::retain with the closure of Store::retain_values: keep is the set   *)
(* of values the predicate accepts.                                        *)
RECURSIVE Store_retain_loop(_, _, _, _, _)
Store_retain_loop(s, keep, i, kept, removed) ==
    IF i > Len(s) THEN [store |-> kept, removed |-> removed]
    ELSE IF s[i][2] \notin keep
         THEN Store_retain_loop(s, keep, i + 1, kept, Append(removed, s[i]))
         ELSE Store_retain_loop(s, keep, i + 1, Append(kept, s[i]), removed)

----------------------------------------------------------------------------
(* Store: the public mutating methods, one action each.                    *)
(*                                                                         *)
(* call and ret record the last call.  To keep that record small the      *)
(* caller issues a call only right after a call that has neither arguments *)
(* nor a result (new, clear_events, clear) and while the log is short.     *)
(* clear_events and events are accepted at any time before a panic;        *)
(* clear_events changes nothing but the log, so every store content stays  *)
(* reachable, and every call on it; after clear a call finds a log that is *)
(* not empty.  clear is also accepted after any call when its event fills  *)
(* the log.                                                                *)

(* The outcome of a call that returns nothing but can panic, and of a call  *)
(* of events(): the log, or the panic of expect() on a None.  A panic ends *)
(* the run: no call follows it.                                            *)
Completed == [panic |-> FALSE]
Panicked == [panic |-> TRUE]
EventsResult(log) == [panic |-> FALSE, events |-> log]
EventsPanic == [panic |-> TRUE, events |-> <<>>]

Halted == call.op \in {"range", "update_at_idx", "events", "info", "warn", "err"} /\ ret.panic

ArgFree == {"new", "clear_events", "clear"}

StoreAccepts == target = "store" /\ call.op \in ArgFree /\ Len(events) < MaxEvents
StoreClears ==
    StoreAccepts \/ (target = "store" /\ ~Halted /\ Len(events) = MaxEvents - 1)

(* With two Stores ("pair") a call is made on one Store and then, after    *)
(* the two have changed places, on the other: twin.phase says whether the  *)
(* next step is a new call ("lead"), the change of places ("swap") or the  *)
(* same call on the other Store ("follow").                                *)
StoreStep(c, s, e, r) ==
    /\ store' = s
    /\ events' = e
    /\ ret' = r
    /\ call' = c
    /\ twin' = IF target = "pair"
               THEN [twin EXCEPT !.phase = IF @ = "lead" THEN "swap" ELSE "lead"]
               ELSE twin
    /\ UNCHANGED <<target, hold_events, bag_vars, logs_vars, locator, sliding_vars>>

(* Variant of add that records Added before Removed.                       *)
Store_add_added_first(key, value, metadata) ==
    LET r == Store_add_internal(store, key, value)
        e1 == fire_event(events, Added(value, metadata))
    IN StoreStep([op |-> "add", key |-> key, value |-> value, metadata |-> metadata],
                 r.store,
                 IF r.ret # None THEN fire_event(e1, Removed(r.ret[1])) ELSE e1,
                 r.ret)

Store_add(key, value, metadata) ==
    /\ LET r == Store_add_internal(store, key, value)
           e1 == IF r.ret # None THEN fire_event(events, Removed(r.ret[1])) ELSE events
       IN StoreStep([op |-> "add", key |-> key, value |-> value, metadata |-> metadata],
                    r.store, fire_event(e1, Added(value, metadata)), r.ret)

Store_remove(key) ==
    /\ LET r == Store_remove_internal(store, key)
       IN StoreStep([op |-> "remove", key |-> key],
                    r.store,
                    IF r.ret # None THEN fire_event(events, Removed(r.ret[1][2])) ELSE events,
                    r.ret)

(* Variant of change that handles the pairs one by one: remove the 'from'  *)
(* of a pair and add its 'to' before turning to the next pair.             *)
RECURSIVE Store_change_pairwise_loop(_, _, _, _, _)
Store_change_pairwise_loop(s, from_to, i, result, removed) ==
    IF i > Len(from_to) THEN [store |-> s, result |-> result, removed |-> removed]
    ELSE LET r == Store_remove_internal(s, from_to[i][1])
             to == from_to[i][2]
             a == Store_add_internal(r.store, to[1], to[2])
         IN IF r.ret = None
            THEN Store_change_pairwise_loop(s, from_to, i + 1, result, removed)
            ELSE Store_change_pairwise_loop(a.store, from_to, i + 1,
                     Append(result, <<r.ret[1], to>>),
                     IF a.ret # None THEN Append(removed, <<to[1], a.ret[1]>>) ELSE removed)

Store_change_pairwise(from_to, metadata) ==
    LET r == Store_change_pairwise_loop(store, from_to, 1, <<>>, <<>>)
    IN StoreStep([op |-> "change", from_to |-> from_to, metadata |-> metadata],
                 r.store,
                 fire_event(events, Changed(r.result, r.removed, metadata)),
                 r.removed)

Store_change(from_to, metadata) ==
    /\ LET r1 == Store_change_remove(store, from_to, 1, <<>>)
           r2 == Store_change_add(r1.store, r1.result, 1, <<>>)
       IN StoreStep([op |-> "change", from_to |-> from_to, metadata |-> metadata],
                    r2.store,
                    fire_event(events, Changed(r1.result, r2.removed, metadata)),
                    r2.removed)

Store_bulk_add(recs, metadata) ==
    /\ LET r == Store_bulk_add_loop(store, recs, 1, <<>>)
       IN StoreStep([op |-> "bulk_add", recs |-> recs, metadata |-> metadata],
                    r.store,
                    fire_event(events, BulkAddedRemoved(recs, r.removed, metadata)),
                    r.removed)

Store_bulk_remove(recs, metadata) ==
    /\ LET r == Store_bulk_remove_loop(store, recs, 1, <<>>)
       IN StoreStep([op |-> "bulk_remove", recs |-> recs, metadata |-> metadata],
                    r.store,
                    fire_event(events, BulkAddedRemoved(<<>>, r.removed, metadata)),
                    r.removed)

(* Variant of pop_first that takes the last entry of the Vec.               *)
Store_pop_first_takes_last ==
    IF store = <<>>
    THEN StoreStep([op |-> "pop_first"], store, events, None)
    ELSE StoreStep([op |-> "pop_first"], RemoveAt(store, Len(store) - 1),
                   fire_event(events, Removed(store[Len(store)][2])),
                   Some(store[Len(store)]))

Store_pop_first ==
    /\ IF store = <<>>
       THEN StoreStep([op |-> "pop_first"], store, events, None)
       ELSE StoreStep([op |-> "pop_first"], RemoveAt(store, 0),
                      fire_event(events, Removed(store[1][2])), Some(store[1]))

(* Variant of clear that records nothing for a store that is empty.        *)
Store_clear_quiet_when_empty ==
    StoreStep([op |-> "clear"], <<>>,
              IF store = <<>> THEN events ELSE fire_event(events, ClearedAll), None)

Store_clear ==
    /\ StoreStep([op |-> "clear"], <<>>, fire_event(events, ClearedAll), None)

Store_clear_events ==
    /\ StoreStep([op |-> "clear_events"], store, <<>>, None)

(* Variant of update_at_idx that reads the entry for its event after it    *)
(* has written the new value.                                              *)
Store_update_at_idx_reads_late(idx, new_value, metadata) ==
    LET c == [op |-> "update_at_idx", idx |-> idx, new_value |-> new_value,
              metadata |-> metadata]
    IN IF idx >= Len(store)
       THEN StoreStep(c, store, events, Panicked)
       ELSE LET written == SetAt(store, idx, <<store[idx + 1][1], new_value>>)
                e == written[idx + 1]
            IN IF ~hold_events
               THEN StoreStep(c, written, events, Completed)
               ELSE StoreStep(c, written,
                              fire_event(events,
                                  Changed(<<<<e, <<e[1], new_value>>>>>>, <<>>, metadata)),
                              Completed)

(* Variant of update_at_idx whose recording branch writes the entry back   *)
(* as it was.                                                              *)
Store_update_at_idx_keeps_when_recording(idx, new_value, metadata) ==
    LET c == [op |-> "update_at_idx", idx |-> idx, new_value |-> new_value,
              metadata |-> metadata]
    IN IF idx >= Len(store)
       THEN StoreStep(c, store, events, Panicked)
       ELSE LET e == store[idx + 1]
            IN IF ~hold_events
               THEN StoreStep(c, SetAt(store, idx, <<e[1], new_value>>), events, Completed)
               ELSE StoreStep(c, SetAt(store, idx, e),
                              fire_event(events,
                                  Changed(<<<<e, <<e[1], new_value>>>>>>, <<>>, metadata)),
                              Completed)

(* An index past the end panics at the first store[idx] (lines 242, 245),  *)
(* before anything is written.  The method has one branch for a store that *)
(* records no events (lines 241-243) and one for a store that does (lines  *)
(* 244-250).                                                               *)
Store_update_at_idx(idx, new_value, metadata) ==
    /\ LET c == [op |-> "update_at_idx", idx |-> idx, new_value |-> new_value,
                 metadata |-> metadata]
       IN IF idx >= Len(store)
          THEN StoreStep(c, store, events, Panicked)
          ELSE LET e == store[idx + 1]
               IN IF ~hold_events
                  THEN StoreStep(c, SetAt(store, idx, <<e[1], new_value>>), events, Completed)
                  ELSE StoreStep(c, SetAt(store, idx, <<e[1], new_value>>),
                                 fire_event(events,
                                     Changed(<<<<e, <<e[1], new_value>>>>>>, <<>>, metadata)),
                                 Completed)

(* Variant of events() that hands out an empty log when none is held.      *)
Store_events_lenient ==
    StoreStep([op |-> "events"], store, events, EventsResult(events))

Store_events ==
    /\ StoreStep([op |-> "events"], store, events,
                 IF hold_events THEN EventsResult(events) ELSE EventsPanic)

(* Variant of replace that hands None to f whatever it found.              *)
Store_replace_blind(k, metadata, f) ==
    LET r == find(store, k)
        c == [op |-> "replace", key |-> k, metadata |-> metadata, f |-> f,
              f_args |-> <<None>>]
        new_value == f[None]
    IN IF r.ok
       THEN StoreStep(c, SetAt(store, r.idx, <<k, new_value>>),
                      IF ~hold_events THEN events
                      ELSE fire_event(events,
                               Changed(<<<<store[r.idx + 1], <<k, new_value>>>>>>, <<>>, metadata)),
                      None)
       ELSE StoreStep(c, InsertAt(store, r.idx, <<k, new_value>>),
                      IF ~hold_events THEN events
                      ELSE fire_event(events, Added(new_value, metadata)),
                      None)

(* f is the closure: a function from Option<&T> to T.  f_args lists the    *)
(* arguments of the calls of f the method makes, in order.  The method has *)
(* one branch for a store that records no events (lines 254-265) and one   *)
(* for a store that does (lines 266-284).                                  *)
Store_replace(k, metadata, f) ==
    /\ LET r == find(store, k)
           c(f_args) == [op |-> "replace", key |-> k, metadata |-> metadata, f |-> f,
                         f_args |-> f_args]
       IN IF ~hold_events
          THEN IF r.ok
               THEN LET current == store[r.idx + 1]
                        new_value == f[Some(current[2])]
                    IN StoreStep(c(<<Some(current[2])>>),
                                 SetAt(store, r.idx, <<k, new_value>>), events, None)
               ELSE LET new_value == f[None]
                    IN StoreStep(c(<<None>>),
                                 InsertAt(store, r.idx, <<k, new_value>>), events, None)
          ELSE IF r.ok
               THEN LET current == store[r.idx + 1]
                        new_value == f[Some(current[2])]
                    IN StoreStep(c(<<Some(current[2])>>),
                                 SetAt(store, r.idx, <<k, new_value>>),
                                 fire_event(events,
                                     Changed(<<<<current, <<k, new_value>>>>>>, <<>>, metadata)),
                                 None)
               ELSE LET new_value == f[None]
                    IN StoreStep(c(<<None>>),
                                 InsertAt(store, r.idx, <<k, new_value>>),
                                 fire_event(events, Added(new_value, metadata)),
                                 None)

(* Variant of replace_mut that takes its snapshot after the closure ran.    *)
Store_replace_mut_late_backup(k, metadata, mutated, result) ==
    LET r == find(store, k)
        c == [op |-> "replace_mut", key |-> k, metadata |-> metadata,
              mutated |-> mutated, result |-> result]
    IN IF r.ok
       THEN LET inplace == SetAt(store, r.idx, <<store[r.idx + 1][1], mutated>>)
                backup == inplace[r.idx + 1]
                new_value == IF result = None THEN mutated ELSE result[1]
            IN StoreStep(c,
                         IF result = None THEN inplace
                         ELSE SetAt(inplace, r.idx, <<k, result[1]>>),
                         IF ~hold_events THEN events
                         ELSE fire_event(events,
                                  Changed(<<<<backup, <<k, new_value>>>>>>, <<>>, metadata)),
                         None)
       ELSE IF result = None
            THEN StoreStep(c, store, events, None)
            ELSE StoreStep(c, InsertAt(store, r.idx, <<k, result[1]>>),
                           IF ~hold_events THEN events
                           ELSE fire_event(events, Added(result[1], metadata)),
                           None)

(* The closure of replace_mut is given by what it does on the one argument *)
(* it receives: mutated is the value it leaves behind the &mut reference   *)
(* (the current value again when it does not mutate), result the Option<T> *)
(* it returns.  With k absent there is nothing to mutate.                  *)
(* The method has one branch for a store that records no events (lines     *)
(* 288-308) and one for a store that does (lines 309-337).                 *)
Store_replace_mut(k, metadata, mutated, result) ==
    /\ LET r == find(store, k)
           c == [op |-> "replace_mut", key |-> k, metadata |-> metadata,
                 mutated |-> mutated, result |-> result]
       IN IF ~hold_events
          THEN IF r.ok
               THEN LET inplace == SetAt(store, r.idx, <<store[r.idx + 1][1], mutated>>)
                    IN StoreStep(c,
                                 IF result = None THEN inplace
                                 ELSE SetAt(inplace, r.idx, <<k, result[1]>>),
                                 events, None)
               ELSE IF result = None
                    THEN StoreStep(c, store, events, None)
                    ELSE StoreStep(c, InsertAt(store, r.idx, <<k, result[1]>>), events, None)
          ELSE IF r.ok
               THEN LET backup == store[r.idx + 1]
                        inplace == SetAt(store, r.idx, <<backup[1], mutated>>)
                        new_value == IF result = None THEN mutated ELSE result[1]
                    IN StoreStep(c,
                                 IF result = None THEN inplace
                                 ELSE SetAt(inplace, r.idx, <<k, result[1]>>),
                                 fire_event(events,
                                     Changed(<<<<backup, <<k, new_value>>>>>>, <<>>, metadata)),
                                 None)
               ELSE IF result = None
                    THEN StoreStep(c, store, events, None)
                    ELSE StoreStep(c, InsertAt(store, r.idx, <<k, result[1]>>),
                                   fire_event(events, Added(result[1], metadata)),
                                   None)

Store_retain_values(metadata, keep) ==
    /\ LET r == Store_retain_loop(store, keep, 1, <<>>, <<>>)
       IN StoreStep([op |-> "retain_values", metadata |-> metadata, keep |-> keep],
                    r.store,
                    fire_event(events, BulkAddedRemoved(<<>>, r.removed, metadata)),
                    r.removed)

----------------------------------------------------------------------------
(* Store: the queries.  A query leaves the store and its log alone; ret is *)
(* what it hands back.                                                     *)

(* std::ops::Bound<K>.                                                     *)
Unbounded == [kind |-> "Unbounded", key |-> 0]
Included(k) == [kind |-> "Included", key |-> k]
Excluded(k) == [kind |-> "Excluded", key |-> k]

(* The index range computes for its start bound (lines 111-126).           *)
Store_range_start_bound(s, b) ==
    IF b.kind = "Unbounded" THEN 0
    ELSE LET r == find(s, b.key)
         IN IF b.kind = "Excluded" THEN (IF r.ok THEN r.idx + 1 ELSE r.idx)
            ELSE r.idx

(* The index range computes for its end bound (lines 128-143).             *)
Store_range_end_bound(s, b) ==
    IF b.kind = "Unbounded" THEN Len(s)
    ELSE LET r == find(s, b.key)
         IN IF b.kind = "Included" THEN (IF r.ok THEN r.idx + 1 ELSE r.idx)
            ELSE r.idx

(* What a call of range produces: the pair (start, slice), or a panic of   *)
(* the slice index store[start_bound..end_bound] when start_bound is past  *)
(* end_bound.                                                              *)
RangeResult(start, slice) == [panic |-> FALSE, start |-> start, slice |-> slice]
RangePanic == [panic |-> TRUE, start |-> 0, slice |-> <<>>]

Store_range_result(s, start, end) ==
    IF s = <<>> THEN RangeResult(0, <<>>)
    ELSE LET start_bound == Store_range_start_bound(s, start)
             end_bound == Store_range_end_bound(s, end)
         IN IF start_bound = end_bound THEN RangeResult(0, <<>>)
            ELSE IF start_bound > end_bound THEN RangePanic
            ELSE RangeResult(start_bound, SubSeq(s, start_bound + 1, end_bound))

Store_range(start, end) ==
    /\ StoreStep([op |-> "range", start |-> start, end |-> end],
                 store, events, Store_range_result(store, start, end))

(* Variant of just_before that starts at the insertion point itself.       *)
Store_just_before_at_ins_pt(k) ==
    LET r == find(store, k)
    IN StoreStep([op |-> "just_before", key |-> k], store, events,
                 IF store = <<>> THEN <<>>
                 ELSE SubSeq(store, r.idx + 1, Len(store)))

(* ret is the sequence of entries the returned iterator yields.            *)
Store_just_before(k) ==
    /\ LET r == find(store, k)
       IN StoreStep([op |-> "just_before", key |-> k], store, events,
                    IF store = <<>> THEN <<>>
                    ELSE IF r.ok THEN SubSeq(store, r.idx + 1, Len(store))
                    ELSE IF r.idx = 0 THEN <<>>
                    ELSE SubSeq(store, r.idx, Len(store)))

(* Variant of just_after that starts at the head of the store when k is    *)
(* not a key of it.                                                        *)
Store_just_after_from_head(k) ==
    LET r == find(store, k)
    IN StoreStep([op |-> "just_after", key |-> k], store, events,
                 IF store = <<>> THEN <<>>
                 ELSE IF r.ok THEN SubSeq(store, r.idx + 1, Len(store))
                 ELSE IF r.idx >= Len(store) THEN <<>>
                 ELSE store)

Store_just_after(k) ==
    /\ LET r == find(store, k)
       IN StoreStep([op |-> "just_after", key |-> k], store, events,
                    IF store = <<>> THEN <<>>
                    ELSE IF r.ok THEN SubSeq(store, r.idx + 1, Len(store))
                    ELSE IF r.idx >= Len(store) THEN <<>>
                    ELSE SubSeq(store, r.idx + 1, Len(store)))

RangeBounds == {Unbounded} \cup {Included(k) : k \in Keys} \cup {Excluded(k) : k \in Keys}

FromTos == Keys \X Entries

StoreNext ==
    \/ StoreAccepts /\ \E k \in Keys, v \in Values, m \in Metas : Store_add(k, v, m)
    \/ StoreAccepts /\ \E k \in Keys : Store_remove(k)
    \/ StoreAccepts /\ \E ft \in SeqsUpTo(FromTos, MaxBatch), m \in Metas :
                           Store_change(ft, m)
    \/ StoreAccepts /\ \E recs \in SeqsUpTo(Entries, MaxBatch), m \in Metas :
                           Store_bulk_add(recs, m)
    \/ StoreAccepts /\ \E recs \in SeqsUpTo(Keys, MaxBatch), m \in Metas :
                           Store_bulk_remove(recs, m)
    \/ StoreAccepts /\ Store_pop_first
    \/ StoreClears /\ Store_clear
    \/ StoreAccepts /\ \E idx \in 0..Cardinality(Keys), v \in Values, m \in Metas :
                           Store_update_at_idx(idx, v, m)
    \/ StoreAccepts /\ \E k \in Keys, m \in Metas, f \in [OptValues -> Values] :
                           Store_replace(k, m, f)
    \/ StoreAccepts /\ \E k \in Keys, m \in Metas, mutated \in Values, result \in OptValues :
                           Store_replace_mut(k, m, mutated, result)
    \/ StoreAccepts /\ \E m \in Metas, keep \in SUBSET Values : Store_retain_values(m, keep)
    \/ StoreAccepts /\ \E start \in RangeBounds, end \in RangeBounds : Store_range(start, end)
    \/ StoreAccepts /\ \E k \in Keys : Store_just_before(k)
    \/ StoreAccepts /\ \E k \in Keys : Store_just_after(k)
    \/ target = "store" /\ ~Halted /\ Store_events
    \/ target = "store" /\ ~Halted /\ Store_clear_events

----------------------------------------------------------------------------
(* BagStoreEvent.                                                          *)

BagAdd(e) == [type |-> "Add", value |-> e]
BagAddVec(v) == [type |-> "AddVec", values |-> v]
BagRemove(e) == [type |-> "Remove", value |-> e]
BagRemoveVec(v) == [type |-> "RemoveVec", values |-> v]
BagRemoveAll(m) == [type |-> "RemoveAll", removed |-> m]
BagClearAll == [type |-> "ClearAll"]
BagChange(c) == [type |-> "Change", changes |-> c]
BagAddAll(a, m) == [type |-> "AddAll", added |-> a, metadata |-> m]
BagBulkRemove(r) == [type |-> "BulkRemove", remove |-> r]

----------------------------------------------------------------------------
(* BTreeMap<K, Vec<T>> as a function whose domain is the set of its keys.  *)

EmptyMap == [k \in {} |-> <<>>]
MapInsert(m, k, v) == [x \in (DOMAIN m) \cup {k} |-> IF x = k THEN v ELSE m[x]]
MapRemove(m, k) == [x \in (DOMAIN m) \ {k} |-> m[x]]
MapGet(m, k) == IF k \in DOMAIN m THEN m[k] ELSE <<>>
FirstKey(m) == CHOOSE k \in DOMAIN m : \A x \in DOMAIN m : k <= x

(* The keys of a map in ascending order, as BTreeMap::iter visits them.    *)
RECURSIVE SortedKeys(_)
SortedKeys(ks) ==
    IF ks = {} THEN <<>>
    ELSE LET k == CHOOSE x \in ks : \A y \in ks : x <= y
         IN <<k>> \o SortedKeys(ks \ {k})

(* Iterator::position: the 1-based position of the first element equal to *)
(* e, 0 when there is none.                                                *)
position(vec, e) ==
    IF \E i \in 1..Len(vec) : vec[i] = e
    THEN CHOOSE i \in 1..Len(vec) : vec[i] = e /\ \A j \in 1..(i - 1) : vec[j] # e
    ELSE 0

----------------------------------------------------------------------------
(* BagStore: the non-notifying helpers, on the pair (store, count).        *)

(* Variant of add_internal that puts the value at the front of the Vec.    *)
BagStore_add_internal_in_front(b, cnt, key, e) ==
    [store |-> MapInsert(b, key, <<e>> \o MapGet(b, key)), count |-> cnt + 1]

BagStore_add_internal(b, cnt, key, e) ==
    [store |-> MapInsert(b, key, Append(MapGet(b, key), e)), count |-> cnt + 1]

BagStore_add_vec_internal(b, cnt, key, e) ==
    [store |-> IF key \in DOMAIN b THEN [b EXCEPT ![key] = b[key] \o e]
               ELSE MapInsert(b, key, e),
     count |-> cnt + Len(e)]

(* The loop of remove_vec_internal over value_table (lines 173-177).       *)
RECURSIVE BagStore_remove_vec_loop(_, _, _, _)
BagStore_remove_vec_loop(cur, value_table, i, removed) ==
    IF i > Len(value_table) THEN [cur |-> cur, removed |-> removed]
    ELSE LET idx == position(cur, value_table[i])
         IN IF idx # 0
            THEN BagStore_remove_vec_loop(RemoveAt(cur, idx - 1), value_table, i + 1,
                                          Append(removed, cur[idx]))
            ELSE BagStore_remove_vec_loop(cur, value_table, i + 1, removed)

BagStore_remove_vec_internal(b, cnt, key, value_table) ==
    IF key \in DOMAIN b
    THEN LET r == BagStore_remove_vec_loop(b[key], value_table, 1, <<>>)
         IN [store |-> [b EXCEPT ![key] = r.cur],
             count |-> cnt - Len(r.removed),
             removed |-> r.removed]
    ELSE [store |-> b, count |-> cnt, removed |-> <<>>]

(* Variant of remove_internal that takes out the last occurrence and keeps *)
(* a key whose Vec it has emptied.                                         *)
BagStore_remove_internal_last_kept(b, cnt, key, e) ==
    LET hits == IF key \in DOMAIN b THEN {i \in 1..Len(b[key]) : b[key][i] = e} ELSE {}
    IN IF hits # {}
       THEN LET idx == CHOOSE i \in hits : \A h \in hits : h <= i
            IN [store |-> [b EXCEPT ![key] = RemoveAt(b[key], idx - 1)],
                count |-> cnt - 1,
                ret |-> Some(e)]
       ELSE [store |-> b, count |-> cnt, ret |-> None]

(* Variant of remove_internal that decrements count on a miss as well.     *)
BagStore_remove_internal_always_counts(b, cnt, key, e) ==
    LET idx == IF key \in DOMAIN b THEN position(b[key], e) ELSE 0
    IN IF idx # 0
       THEN LET vec == RemoveAt(b[key], idx - 1)
            IN [store |-> IF vec = <<>> THEN MapRemove(b, key) ELSE [b EXCEPT ![key] = vec],
                count |-> cnt - 1,
                ret |-> Some(b[key][idx])]
       ELSE [store |-> b, count |-> cnt - 1, ret |-> None]

BagStore_remove_internal(b, cnt, key, e) ==
    LET idx == IF key \in DOMAIN b THEN position(b[key], e) ELSE 0
    IN IF idx # 0
       THEN LET vec == RemoveAt(b[key], idx - 1)
            IN [store |-> IF vec = <<>> THEN MapRemove(b, key) ELSE [b EXCEPT ![key] = vec],
                count |-> cnt - 1,
                ret |-> Some(b[key][idx])]
       ELSE [store |-> b, count |-> cnt, ret |-> None]

(* The loop of remove_all over the map's keys in ascending order.          *)
RECURSIVE BagStore_remove_all_loop(_, _, _, _, _, _)
BagStore_remove_all_loop(b, cnt, map, keys, i, removed) ==
    IF i > Len(keys) THEN [store |-> b, count |-> cnt, removed |-> removed]
    ELSE LET r == BagStore_remove_vec_internal(b, cnt, keys[i], map[keys[i]])
         IN BagStore_remove_all_loop(r.store, r.count, map, keys, i + 1,
                                     MapInsert(removed, keys[i], r.removed))

(* The loop of add_all over the map's keys in ascending order.             *)
RECURSIVE BagStore_add_all_loop(_, _, _, _, _)
BagStore_add_all_loop(b, cnt, map, keys, i) ==
    IF i > Len(keys) THEN [store |-> b, count |-> cnt]
    ELSE LET r == BagStore_add_vec_internal(b, cnt, keys[i], map[keys[i]])
         IN BagStore_add_all_loop(r.store, r.count, map, keys, i + 1)

(* Variant of the loop of change that adds 'to' under the key of 'from'.    *)
RECURSIVE BagStore_change_loop_keeps_key(_, _, _, _)
BagStore_change_loop_keeps_key(b, cnt, changes, i) ==
    IF i > Len(changes) THEN [store |-> b, count |-> cnt]
    ELSE LET from == changes[i][1]
             to == changes[i][2]
             r == BagStore_remove_internal(b, cnt, from[1], from[2])
             a == BagStore_add_internal(r.store, r.count, from[1], to[2])
         IN BagStore_change_loop_keeps_key(a.store, a.count, changes, i + 1)

(* The loop of change: per pair, remove 'from' and then add 'to'.          *)
RECURSIVE BagStore_change_loop(_, _, _, _)
BagStore_change_loop(b, cnt, changes, i) ==
    IF i > Len(changes) THEN [store |-> b, count |-> cnt]
    ELSE LET from == changes[i][1]
             to == changes[i][2]
             r == BagStore_remove_internal(b, cnt, from[1], from[2])
             a == BagStore_add_internal(r.store, r.count, to[1], to[2])
         IN BagStore_change_loop(a.store, a.count, changes, i + 1)

(* The map bulk_add builds from its models (lines 253-257).                *)
RECURSIVE BagStore_bulk_add_map(_, _, _)
BagStore_bulk_add_map(models, i, map) ==
    IF i > Len(models) THEN map
    ELSE BagStore_bulk_add_map(models, i + 1,
             MapInsert(map, models[i][1], Append(MapGet(map, models[i][1]), models[i][2])))

(* The loop of bulk_remove.                                                *)
RECURSIVE BagStore_bulk_remove_loop(_, _, _, _)
BagStore_bulk_remove_loop(b, cnt, remove, i) ==
    IF i > Len(remove) THEN [store |-> b, count |-> cnt]
    ELSE LET r == BagStore_remove_internal(b, cnt, remove[i][1], remove[i][2])
         IN BagStore_bulk_remove_loop(r.store, r.count, remove, i + 1)

----------------------------------------------------------------------------
(* BagStore: the public mutating methods, one action each.  Calls are      *)
(* accepted as for the Store; a call that adds values is accepted while    *)
(* the bag store holds fewer than MaxCount values (BagNext).               *)

BagAccepts == target = "bag" /\ call.op \in ArgFree /\ Len(bag_events) < MaxEvents
BagGrows == BagAccepts /\ count < MaxCount
BagClears ==
    BagAccepts \/ (target = "bag" /\ ~Halted /\ Len(bag_events) = MaxEvents - 1)

BagStep(c, b, cnt, e, r) ==
    /\ bag' = b
    /\ count' = cnt
    /\ bag_events' = e
    /\ ret' = r
    /\ call' = c
    /\ UNCHANGED <<target, hold_events, store_vars, logs_vars, locator, sliding_vars, twin>>

BagStore_pop_first ==
    /\ IF DOMAIN bag = {}
       THEN BagStep([op |-> "pop_first"], bag, count, bag_events, None)
       ELSE LET k == FirstKey(bag)
                v == bag[k]
            IN BagStep([op |-> "pop_first"], MapRemove(bag, k), count - Len(v),
                       fire_event(bag_events, BagRemoveVec(v)), Some(<<k, v>>))

BagStore_add(key, e) ==
    /\ LET r == BagStore_add_internal(bag, count, key, e)
       IN BagStep([op |-> "add", key |-> key, value |-> e],
                  r.store, r.count, fire_event(bag_events, BagAdd(e)), None)

BagStore_add_vec(key, e) ==
    /\ LET r == BagStore_add_vec_internal(bag, count, key, e)
       IN BagStep([op |-> "add_vec", key |-> key, values |-> e],
                  r.store, r.count, fire_event(bag_events, BagAddVec(e)), None)

(* Variant of remove that records a Remove event whatever it found.        *)
BagStore_remove_always_fires(key, e) ==
    LET r == BagStore_remove_internal(bag, count, key, e)
    IN BagStep([op |-> "remove", key |-> key, value |-> e],
               r.store, r.count, fire_event(bag_events, BagRemove(e)), r.ret)

BagStore_remove(key, e) ==
    /\ LET r == BagStore_remove_internal(bag, count, key, e)
       IN BagStep([op |-> "remove", key |-> key, value |-> e],
                  r.store, r.count,
                  IF r.ret # None THEN fire_event(bag_events, BagRemove(e)) ELSE bag_events,
                  r.ret)

(* Variant of remove_vec whose event lists the values it was asked for.     *)
BagStore_remove_vec_reports_asked(key, value_table) ==
    LET r == BagStore_remove_vec_internal(bag, count, key, value_table)
    IN BagStep([op |-> "remove_vec", key |-> key, values |-> value_table],
               r.store, r.count, fire_event(bag_events, BagRemoveVec(value_table)), None)

BagStore_remove_vec(key, value_table) ==
    /\ LET r == BagStore_remove_vec_internal(bag, count, key, value_table)
       IN BagStep([op |-> "remove_vec", key |-> key, values |-> value_table],
                  r.store, r.count, fire_event(bag_events, BagRemoveVec(r.removed)), None)

BagStore_remove_all(map) ==
    /\ LET r == BagStore_remove_all_loop(bag, count, map, SortedKeys(DOMAIN map), 1, EmptyMap)
       IN BagStep([op |-> "remove_all", map |-> map],
                  r.store, r.count, fire_event(bag_events, BagRemoveAll(r.removed)), None)

BagStore_clear ==
    /\ BagStep([op |-> "clear"], EmptyMap, 0, fire_event(bag_events, BagClearAll), None)

BagStore_change(changes) ==
    /\ LET r == BagStore_change_loop(bag, count, changes, 1)
       IN BagStep([op |-> "change", changes |-> changes],
                  r.store, r.count, fire_event(bag_events, BagChange(changes)), None)

(* bulk_add with add_all, which it ends in.                                *)
BagStore_bulk_add(models, metadata) ==
    /\ LET map == BagStore_bulk_add_map(models, 1, EmptyMap)
           r == BagStore_add_all_loop(bag, count, map, SortedKeys(DOMAIN map), 1)
       IN BagStep([op |-> "bulk_add", models |-> models, metadata |-> metadata],
                  r.store, r.count, fire_event(bag_events, BagAddAll(map, metadata)), None)

BagStore_bulk_remove(remove) ==
    /\ LET r == BagStore_bulk_remove_loop(bag, count, remove, 1)
       IN BagStep([op |-> "bulk_remove", remove |-> remove],
                  r.store, r.count, fire_event(bag_events, BagBulkRemove(remove)), None)

BagStore_events ==
    /\ BagStep([op |-> "events"], bag, count, bag_events,
               IF hold_events THEN EventsResult(bag_events) ELSE EventsPanic)

BagStore_clear_events ==
    /\ BagStep([op |-> "clear_events"], bag, count, <<>>, None)

(* btree_map::Iter over the map: its (key, Vec) pairs in ascending key      *)
(* order.                                                                  *)
RECURSIVE BagStore_iter_vec(_)
BagStore_iter_vec(m) ==
    IF DOMAIN m = {} THEN <<>>
    ELSE LET k == FirstKey(m)
         IN <<<<k, m[k]>>>> \o BagStore_iter_vec(MapRemove(m, k))

(* BTreeMap::range, to which range_vec hands its bounds.  It panics when   *)
(* the start is greater than the end and when both are excluded at the     *)
(* same key; it makes that test only on a map that has a root node, which  *)
(* a map without keys may or may not have (new and clear leave none, the   *)
(* removal of the last key leaves one), so on such a map both outcomes     *)
(* occur.                                                                  *)
BagRangePairs(pairs) == [panic |-> FALSE, pairs |-> pairs]
BagRangePanic == [panic |-> TRUE, pairs |-> <<>>]

BagStore_range_vec(m, start, end) ==
    LET bad == /\ start.kind # "Unbounded"
               /\ end.kind # "Unbounded"
               /\ \/ start.key > end.key
                  \/ start.key = end.key /\ start.kind = "Excluded" /\ end.kind = "Excluded"
        within(kv) ==
            /\ \/ start.kind = "Unbounded"
               \/ start.kind = "Included" /\ start.key <= kv[1]
               \/ start.kind = "Excluded" /\ start.key < kv[1]
            /\ \/ end.kind = "Unbounded"
               \/ end.kind = "Included" /\ kv[1] <= end.key
               \/ end.kind = "Excluded" /\ kv[1] < end.key
        found == BagRangePairs(SelectSeq(BagStore_iter_vec(m), within))
    IN IF ~bad THEN {found}
       ELSE IF DOMAIN m = {} THEN {found, BagRangePanic}
       ELSE {BagRangePanic}

(* The flattening iterators: key is the key of the bag being drained,      *)
(* sub_iter what is left of that bag, iter what is left of the map.        *)
NewIter(pairs) == [iter |-> pairs, key |-> None, sub_iter |-> <<>>]

RECURSIVE Iter_next(_)
Iter_next(it) ==
    IF it.sub_iter # <<>>
    THEN [item |-> Some(<<it.key[1], Head(it.sub_iter)>>),
          it |-> [it EXCEPT !.sub_iter = Tail(@)]]
    ELSE IF it.iter = <<>> THEN [item |-> None, it |-> it]
    ELSE Iter_next([iter |-> Tail(it.iter),
                    key |-> Some(Head(it.iter)[1]),
                    sub_iter |-> Head(it.iter)[2]])

RECURSIVE RangeIter_next(_)
RangeIter_next(it) ==
    IF it.sub_iter # <<>>
    THEN [item |-> Some(<<it.key[1], Head(it.sub_iter)>>),
          it |-> [it EXCEPT !.sub_iter = Tail(@)]]
    ELSE IF it.iter = <<>> THEN [item |-> None, it |-> it]
    ELSE RangeIter_next([iter |-> Tail(it.iter),
                         key |-> Some(Head(it.iter)[1]),
                         sub_iter |-> Head(it.iter)[2]])

(* What a caller collects from an iterator by calling next until None.     *)
RECURSIVE Iter_collect(_)
Iter_collect(it) ==
    LET r == Iter_next(it)
    IN IF r.item = None THEN <<>> ELSE <<r.item[1]>> \o Iter_collect(r.it)

RECURSIVE RangeIter_collect(_)
RangeIter_collect(it) ==
    LET r == RangeIter_next(it)
    IN IF r.item = None THEN <<>> ELSE <<r.item[1]>> \o RangeIter_collect(r.it)

BagStore_iter ==
    /\ BagStep([op |-> "iter"], bag, count, bag_events,
               Iter_collect(NewIter(BagStore_iter_vec(bag))))

BagStore_range(start, end) ==
    /\ \E r \in BagStore_range_vec(bag, start, end) :
          BagStep([op |-> "range", start |-> start, end |-> end], bag, count, bag_events,
                  IF r.panic THEN BagRangePanic
                  ELSE BagRangePairs(RangeIter_collect(NewIter(r.pairs))))

BagEntries == BagKeys \X Values
BagRangeBounds == {Unbounded} \cup {Included(k) : k \in BagKeys} \cup {Excluded(k) : k \in BagKeys}
Vecs == SeqsUpTo(Values, MaxBatch)
Maps == UNION {[ks -> Vecs] : ks \in SUBSET BagKeys}

BagNext ==
    \/ BagAccepts /\ BagStore_pop_first
    \/ BagGrows /\ \E k \in BagKeys, e \in Values : BagStore_add(k, e)
    \/ BagGrows /\ \E k \in BagKeys, e \in Vecs : BagStore_add_vec(k, e)
    \/ BagAccepts /\ \E k \in BagKeys, e \in Values : BagStore_remove(k, e)
    \/ BagAccepts /\ \E k \in BagKeys, vt \in Vecs : BagStore_remove_vec(k, vt)
    \/ BagAccepts /\ \E map \in Maps : BagStore_remove_all(map)
    \/ BagClears /\ BagStore_clear
    \/ BagGrows /\ \E changes \in SeqsUpTo(BagEntries \X BagEntries, MaxBatch) :
                       BagStore_change(changes)
    \/ BagGrows /\ \E models \in SeqsUpTo(BagEntries, MaxBatch), m \in Metas :
                       BagStore_bulk_add(models, m)
    \/ BagAccepts /\ \E remove \in SeqsUpTo(BagEntries, MaxBatch) :
                         BagStore_bulk_remove(remove)
    \/ BagAccepts /\ BagStore_iter
    \/ BagAccepts /\ \E start \in BagRangeBounds, end \in BagRangeBounds :
                         BagStore_range(start, end)
    \/ target = "bag" /\ ~Halted /\ BagStore_events
    \/ target = "bag" /\ ~Halted /\ BagStore_clear_events

----------------------------------------------------------------------------
(* Logs (src/src/err_log.rs): a log of bounded length with observers.  An  *)
(* Entry carries its severity and text; its time, read from the system     *)
(* clock when the entry is made, is left out.                              *)

Texts == {"a", "b"}
ObserverIds == {1, 2}

Severity_Info == "Info"
Severity_Warn == "Warn"
Severity_Err == "Err"

Entry_new(severity, text) == [severity |-> severity, text |-> text]
Entry_info(text) == Entry_new(Severity_Info, text)
Entry_warn(text) == Entry_new(Severity_Warn, text)
Entry_err(text) == Entry_new(Severity_Err, text)

LogsStep(c, l, o, a, r, h) ==
    /\ logs' = l
    /\ observers' = o
    /\ alive' = a
    /\ ret' = r
    /\ call' = c
    /\ appended' = h
    /\ UNCHANGED <<target, hold_events, store_vars, bag_vars, size, locator, sliding_vars, twin>>

(* logs(): the entries from the front of the deque to its back.            *)
Logs_logs(l) == l

(* The owner of an observer drops its last strong reference.               *)
Observer_drop(o) ==
    /\ o \in alive
    /\ LogsStep([op |-> "drop", observer |-> o], logs, observers, alive \ {o}, None, appended)

Logs_add_observer(o) ==
    /\ o \in alive
    /\ LogsStep([op |-> "add_observer", observer |-> o],
                logs, Append(observers, o), alive, None, appended)

(* Variant of trim that evicts the newest entry.                           *)
Logs_trim_newest(sz, l) ==
    IF sz <= Len(l) THEN (IF l = <<>> THEN l ELSE SubSeq(l, 1, Len(l) - 1)) ELSE l

(* VecDeque::remove(0) is a no-op on an empty deque.                       *)
Logs_trim(sz, l) ==
    IF sz <= Len(l) THEN (IF l = <<>> THEN l ELSE Tail(l)) ELSE l

(* The retain pass of append_log over observers[i..]: kept is what retain  *)
(* keeps, notified the observers whose notify was called, in call order.   *)
(* upgrade() succeeds for an observer that is alive; borrow_mut() panics   *)
(* on an observer its owner holds borrowed during the call, and the        *)
(* unwinding retain keeps that observer and every later one.               *)
RECURSIVE Logs_retain_loop(_, _, _, _, _)
Logs_retain_loop(obs, borrowed, i, kept, notified) ==
    IF i > Len(obs) THEN [panic |-> FALSE, observers |-> kept, notified |-> notified]
    ELSE IF obs[i] \in alive
         THEN IF obs[i] \in borrowed
              THEN [panic |-> TRUE, observers |-> kept \o SubSeq(obs, i, Len(obs)),
                    notified |-> notified]
              ELSE Logs_retain_loop(obs, borrowed, i + 1,
                                    Append(kept, obs[i]), Append(notified, obs[i]))
         ELSE Logs_retain_loop(obs, borrowed, i + 1, kept, notified)

(* A call of info, warn or err returns nothing: ret records whether it     *)
(* panicked and which observers it notified of e.                          *)
Logs_append_log(c, e) ==
    LET trimmed == Logs_trim(size, logs)
        r == Logs_retain_loop(observers, c.borrowed, 1, <<>>, <<>>)
    IN LogsStep(c,
                IF r.panic THEN trimmed ELSE Append(trimmed, e),
                r.observers, alive,
                [panic |-> r.panic, notified |-> r.notified],
                IF r.panic THEN appended ELSE Append(appended, e))

Logs_info(text, borrowed) ==
    /\ Logs_append_log([op |-> "info", text |-> text, borrowed |-> borrowed], Entry_info(text))

Logs_warn(text, borrowed) ==
    /\ Logs_append_log([op |-> "warn", text |-> text, borrowed |-> borrowed], Entry_warn(text))

Logs_err(text, borrowed) ==
    /\ Logs_append_log([op |-> "err", text |-> text, borrowed |-> borrowed], Entry_err(text))

(* The caller appends at most MaxAppends entries and registers at most     *)
(* MaxObservers observers; a panic ends the run.                           *)
LogsAccepts == target = "logs" /\ ~Halted
LogsAppends == LogsAccepts /\ Len(appended) < MaxAppends

LogsNext ==
    \/ LogsAppends /\ \E text \in Texts, borrowed \in SUBSET alive : Logs_info(text, borrowed)
    \/ LogsAppends /\ \E text \in Texts, borrowed \in SUBSET alive : Logs_warn(text, borrowed)
    \/ LogsAppends /\ \E text \in Texts, borrowed \in SUBSET alive : Logs_err(text, borrowed)
    \/ LogsAccepts /\ Len(observers) < MaxObservers /\ \E o \in ObserverIds : Logs_add_observer(o)
    \/ LogsAccepts /\ \E o \in ObserverIds : Observer_drop(o)

----------------------------------------------------------------------------
(* Finder: a cursor over a Store that remembers the index of its last      *)
(* answer.  The Store is borrowed for as long as the Finder lives, so it   *)
(* does not change; it is any Store the mutating methods can build.        *)

SortedStores ==
    {s \in SeqsUpTo(Entries, Cardinality(Keys)) :
        \A i \in 1..(Len(s) - 1) : s[i][1] < s[i + 1][1]}

(* Variant of index that leaves the last entry out of the search.          *)
Store_index_short(s, key) ==
    binary_search_by_key(s, key, 0, IF Len(s) = 0 THEN 0 ELSE Len(s) - 1)

Store_index(s, key) == binary_search_by_key(s, key, 0, Len(s))

(* The cached index i still answers key: store[i].key <= key, and either   *)
(* i is the last index or key < store[i + 1].key.                          *)
Finder_cache_hit(s, i, key) ==
    /\ i < Len(s)
    /\ s[i + 1][1] <= key
    /\ (i + 1 = Len(s) \/ key < s[i + 2][1])

(* The answer of just_before and the index it leaves cached (the call      *)
(* record keeps the index it found cached).  After an                      *)
(* answer of None either nothing is cached or the earlier index still is.  *)
Finder_just_before_result(s, loc, key) ==
    IF loc # None /\ Finder_cache_hit(s, loc[1], key)
    THEN {[ret |-> Some(s[loc[1] + 1]), locator |-> loc]}
    ELSE LET r == Store_index(s, key)
         IN IF r.ok THEN {[ret |-> Some(s[r.idx + 1]), locator |-> Some(r.idx)]}
            ELSE IF r.idx = 0 THEN {[ret |-> None, locator |-> None],
                                    [ret |-> None, locator |-> loc]}
            ELSE {[ret |-> Some(s[r.idx]), locator |-> Some(r.idx - 1)]}

Finder_just_before(key) ==
    /\ \E r \in Finder_just_before_result(store, locator, key) :
          /\ ret' = r.ret
          /\ locator' = r.locator
          /\ call' = [op |-> "just_before", key |-> key, cached |-> locator]
          /\ UNCHANGED <<target, hold_events, store_vars, bag_vars, logs_vars, sliding_vars, twin>>

ProbeKeys == 0..(Cardinality(Keys) + 1)

FinderNext ==
    \/ target = "finder" /\ \E key \in ProbeKeys : Finder_just_before(key)

----------------------------------------------------------------------------
(* Sliding (src/src/lib.rs): the pairs of neighbours of an iterator.  The  *)
(* underlying iterator z yields the elements of a finite sequence.         *)

Items == {1, 2, 3}

(* Variant of next that does not keep the second element of a pair for the *)
(* next pair.                                                              *)
RECURSIVE Sliding_next_forgets(_, _)
Sliding_next_forgets(zz, pv) ==
    IF zz # <<>>
    THEN LET t == Head(zz)
         IN IF pv # None
            THEN [item |-> Some(<<pv[1], t>>), z |-> Tail(zz), prev |-> None]
            ELSE Sliding_next_forgets(Tail(zz), Some(t))
    ELSE [item |-> None, z |-> zz, prev |-> pv]

RECURSIVE Sliding_next(_, _)
Sliding_next(zz, pv) ==
    IF zz # <<>>
    THEN LET t == Head(zz)
         IN IF pv # None
            THEN [item |-> Some(<<pv[1], t>>), z |-> Tail(zz), prev |-> Some(t)]
            ELSE Sliding_next(Tail(zz), Some(t))
    ELSE [item |-> None, z |-> zz, prev |-> pv]

Sliding_step ==
    /\ LET r == Sliding_next(z, prev)
       IN /\ z' = r.z
          /\ prev' = r.prev
          /\ ret' = r.item
          /\ yielded' = IF r.item = None THEN yielded ELSE Append(yielded, r.item[1])
          /\ call' = [op |-> "next"]
          /\ UNCHANGED <<target, hold_events, store_vars, bag_vars, logs_vars, locator, src, twin>>

SlidingNext ==
    \/ target = "sliding" /\ Sliding_step

----------------------------------------------------------------------------
(* Two Stores, one built with hold_events = true and one with false, that  *)
(* receive the same calls of the mutating methods.  store, events and      *)
(* hold_events are the Store the next call is made on, twin holds the      *)
(* other one.                                                              *)

(* The two Stores change places; the call just made stays in call.         *)
Pair_swap ==
    /\ store' = twin.store
    /\ events' = twin.events
    /\ hold_events' = twin.hold_events
    /\ twin' = [phase |-> "follow", hold_events |-> hold_events, store |-> store,
                events |-> events, ret |-> ret]
    /\ UNCHANGED <<target, call, ret, bag_vars, logs_vars, locator, sliding_vars>>

(* A new call is accepted as the single Store accepts it: right after new,  *)
(* clear_events or clear, and while neither log is long.                   *)
PairLeads ==
    /\ target = "pair"
    /\ twin.phase = "lead"
    /\ call.op \in ArgFree
    /\ Len(events) < MaxEvents
    /\ Len(twin.events) < MaxEvents

PairFollows(op) == target = "pair" /\ twin.phase = "follow" /\ call.op = op

PairNext ==
    \/ PairLeads /\ \E k \in Keys, v \in Values, m \in Metas : Store_add(k, v, m)
    \/ PairLeads /\ \E k \in Keys : Store_remove(k)
    \/ PairLeads /\ \E ft \in SeqsUpTo(FromTos, MaxBatch), m \in Metas : Store_change(ft, m)
    \/ PairLeads /\ \E recs \in SeqsUpTo(Entries, MaxBatch), m \in Metas :
                        Store_bulk_add(recs, m)
    \/ PairLeads /\ \E recs \in SeqsUpTo(Keys, MaxBatch), m \in Metas :
                        Store_bulk_remove(recs, m)
    \/ PairLeads /\ Store_pop_first
    \/ PairLeads /\ Store_clear
    \/ PairLeads /\ \E idx \in 0..Cardinality(Keys), v \in Values, m \in Metas :
                        Store_update_at_idx(idx, v, m)
    \/ PairLeads /\ \E k \in Keys, m \in Metas, f \in [OptValues -> Values] :
                        Store_replace(k, m, f)
    \/ PairLeads /\ \E k \in Keys, m \in Metas, mutated \in Values, result \in OptValues :
                        Store_replace_mut(k, m, mutated, result)
    \/ PairLeads /\ \E m \in Metas, keep \in SUBSET Values : Store_retain_values(m, keep)
    \/ target = "pair" /\ twin.phase = "lead" /\ ~Halted /\ Store_clear_events
    \/ target = "pair" /\ twin.phase = "swap" /\ Pair_swap
    \/ PairFollows("add") /\ Store_add(call.key, call.value, call.metadata)
    \/ PairFollows("remove") /\ Store_remove(call.key)
    \/ PairFollows("change") /\ Store_change(call.from_to, call.metadata)
    \/ PairFollows("bulk_add") /\ Store_bulk_add(call.recs, call.metadata)
    \/ PairFollows("bulk_remove") /\ Store_bulk_remove(call.recs, call.metadata)
    \/ PairFollows("pop_first") /\ Store_pop_first
    \/ PairFollows("clear") /\ Store_clear
    \/ PairFollows("update_at_idx") /\
           Store_update_at_idx(call.idx, call.new_value, call.metadata)
    \/ PairFollows("replace") /\ Store_replace(call.key, call.metadata, call.f)
    \/ PairFollows("replace_mut") /\
           Store_replace_mut(call.key, call.metadata, call.mutated, call.result)
    \/ PairFollows("retain_values") /\ Store_retain_values(call.metadata, call.keep)
    \/ PairFollows("clear_events") /\ Store_clear_events

----------------------------------------------------------------------------

(* The state after construction: a Store, a BagStore, a Logs, a Finder     *)
(* over a Store, a Sliding over an iterator, or two Stores.                *)
Constructed ==
    /\ target \in {"store", "bag", "logs", "finder", "sliding", "pair"}
    /\ hold_events \in (IF target \in {"store", "bag"} THEN BOOLEAN
                         ELSE IF target = "pair" THEN {TRUE} ELSE {FALSE})
    /\ store \in (IF target = "finder" THEN SortedStores ELSE {<<>>})
    /\ events = <<>>
    /\ bag = EmptyMap
    /\ count = 0
    /\ bag_events = <<>>
    /\ call = [op |-> "new"]
    /\ ret = None
    /\ size \in (IF target = "logs" THEN 0..MaxSize ELSE {0})
    /\ logs = <<>>
    /\ observers = <<>>
    /\ alive = IF target = "logs" THEN ObserverIds ELSE {}
    /\ appended = <<>>
    /\ locator = None
    /\ src \in (IF target = "sliding" THEN SeqsUpTo(Items, MaxLen) ELSE {<<>>})
    /\ z = src
    /\ prev = None
    /\ yielded = <<>>
    /\ twin = [phase |-> "lead", hold_events |-> FALSE, store |-> <<>>, events |-> <<>>,
               ret |-> None]

(* The two containers.                                                     *)
Init == Constructed /\ target \in {"store", "bag"}

Next == StoreNext \/ BagNext

Spec == Init /\ [][Next]_vars

(* The Store alone and the BagStore alone.                                 *)
InitStore == Init /\ target = "store"
InitBag == Init /\ target = "bag"
(* The other components, each with a specification of its own.             *)
InitLogs == Constructed /\ target = "logs"
InitFinder == Constructed /\ target = "finder"
InitSliding == Constructed /\ target = "sliding"
InitPair == Constructed /\ target = "pair"
StoreSpec == InitStore /\ [][StoreNext]_vars
BagSpec == InitBag /\ [][BagNext]_vars
LogsSpec == InitLogs /\ [][LogsNext]_vars
FinderSpec == InitFinder /\ [][FinderNext]_vars
SlidingSpec == InitSliding /\ [][SlidingNext]_vars
PairSpec == InitPair /\ [][PairNext]_vars

----------------------------------------------------------------------------
(* Vocabulary of the properties.                                           *)

StoreKeys(s) == {s[i][1] : i \in 1..Len(s)}
StoreGet(s, k) == s[CHOOSE i \in 1..Len(s) : s[i][1] = k][2]

RECURSIVE SumLens(_, _)
SumLens(m, ks) ==
    IF ks = {} THEN 0
    ELSE LET k == CHOOSE x \in ks : TRUE
         IN Len(m[k]) + SumLens(m, ks \ {k})

----------------------------------------------------------------------------
(* C1  Sort invariant: in every reachable state the Store's backing        *)
(* sequence is strictly ascending by key, hence without duplicate keys.    *)
C1_SortInvariant ==
    \A i \in 1..(Len(store) - 1) : store[i][1] < store[i + 1][1]

(* An add has just inserted a new key between two existing entries.        *)
C1_Witness ==
    /\ target = "store"
    /\ call.op = "add"
    /\ ret = None
    /\ Len(store) = 3
    /\ store[2][1] = call.key

(* C2  Count invariant: in every reachable state of the BagStore, count    *)
(* (the value of len()) is the sum of the lengths of the value sequences.  *)
C2_CountInvariant ==
    count = SumLens(bag, DOMAIN bag)

(* A remove of a value that is not stored under an existing key.           *)
C2_Witness ==
    /\ target = "bag"
    /\ call.op = "remove"
    /\ ret = None
    /\ call.key \in DOMAIN bag
    /\ count = 2

(* C3  No-empty-bags invariant: no key of the BagStore maps to an empty    *)
(* value sequence.                                                         *)
C3_NoEmptyBags ==
    \A k \in DOMAIN bag : bag[k] # <<>>

(* The number of entries of s whose key is smaller than k: the position    *)
(* (0-based) at which an entry with key k keeps s sorted.                  *)
SortedPosition(s, k) == Cardinality({i \in 1..Len(s) : s[i][1] < k})

LastEvent(log) == log[Len(log)]

(* C4  Store.add is replace-or-insert.  With no entry at k: (k, v) is      *)
(* inserted at its sorted position, the call returns None and len() grows  *)
(* by one.  With (k, v1) present: exactly one entry at k, holding v, the   *)
(* call returns Some(v1), len() and every other entry are unchanged.       *)
C4_AddReplaceOrInsert ==
    [][(target = "store" /\ call'.op = "add") =>
          LET k == call'.key
              v == call'.value
              n == SortedPosition(store, k)
          IN IF k \in StoreKeys(store)
             THEN /\ ret' = Some(StoreGet(store, k))
                  /\ Len(store') = Len(store)
                  /\ Cardinality({i \in 1..Len(store') : store'[i][1] = k}) = 1
                  /\ \A i \in 1..Len(store) :
                        store'[i] = IF store[i][1] = k THEN <<k, v>> ELSE store[i]
             ELSE /\ ret' = None
                  /\ Len(store') = Len(store) + 1
                  /\ store' = SubSeq(store, 1, n) \o <<<<k, v>>>>
                                  \o SubSeq(store, n + 1, Len(store))
      ]_vars

(* An add has replaced the value of the middle one of three entries.       *)
C4_Witness ==
    /\ target = "store"
    /\ call.op = "add"
    /\ ret # None
    /\ ret # Some(call.value)
    /\ Len(store) = 3
    /\ store[2] = <<call.key, call.value>>

(* C5  Event order of Store.add on a recording Store: a replacing add      *)
(* appends exactly Removed(old value) and then Added(new value); an        *)
(* inserting add appends exactly Added(new value).                         *)
C5_AddEventOrder ==
    [][(target = "store" /\ hold_events /\ call'.op = "add") =>
          LET k == call'.key
              added == Added(call'.value, call'.metadata)
          IN events' = events \o (IF k \in StoreKeys(store)
                                  THEN <<Removed(StoreGet(store, k)), added>>
                                  ELSE <<added>>)
      ]_vars

(* A replacing add on a recording Store has left Removed, Added in the log. *)
C5_Witness ==
    /\ target = "store"
    /\ hold_events
    /\ call.op = "add"
    /\ ret # None
    /\ Len(events) = 2
    /\ events[1] = Removed(ret[1])
    /\ events[2] = Added(call.value, call.metadata)

(* C6  Event suppression on a no-op remove, on a recording store:          *)
(* Store.remove(k) with k absent, and BagStore.remove(k, v) with k absent  *)
(* or v not stored under k, return None, leave contents and length         *)
(* unchanged and append nothing; a remove that removes appends exactly one *)
(* Removed (BagStore: Remove) event.                                       *)
C6_RemoveNoOpSilent ==
    [][/\ (target = "store" /\ hold_events /\ call'.op = "remove") =>
             LET k == call'.key
             IN IF k \notin StoreKeys(store)
                THEN ret' = None /\ store' = store /\ events' = events
                ELSE /\ ret' = Some(<<k, StoreGet(store, k)>>)
                     /\ events' = Append(events, Removed(StoreGet(store, k)))
       /\ (target = "bag" /\ hold_events /\ call'.op = "remove") =>
             LET k == call'.key
                 v == call'.value
                 stored == k \in DOMAIN bag /\ \E i \in 1..Len(bag[k]) : bag[k][i] = v
             IN IF ~stored
                THEN /\ ret' = None
                     /\ bag' = bag
                     /\ count' = count
                     /\ bag_events' = bag_events
                ELSE /\ ret' = Some(v)
                     /\ bag_events' = Append(bag_events, BagRemove(v))
      ]_vars

(* A recording BagStore was asked to remove a value that is not stored     *)
(* under an existing key, and its log is still empty.                      *)
C6_Witness ==
    /\ target = "bag"
    /\ hold_events
    /\ call.op = "remove"
    /\ ret = None
    /\ call.key \in DOMAIN bag
    /\ count > 0
    /\ bag_events = <<>>

(* The case C7 is about: a bulk_remove of at least one key, all of them    *)
(* absent, or a change of at least one pair, all old keys absent, on a     *)
(* recording Store.                                                        *)
C7_AllAbsent ==
    /\ target = "store"
    /\ hold_events
    /\ \/ /\ call'.op = "bulk_remove"
          /\ call'.recs # <<>>
          /\ \A i \in 1..Len(call'.recs) : call'.recs[i] \notin StoreKeys(store)
       \/ /\ call'.op = "change"
          /\ call'.from_to # <<>>
          /\ \A i \in 1..Len(call'.from_to) : call'.from_to[i][1] \notin StoreKeys(store)

(* C7  Missing-key no-op policy for batch operations: on a recording      *)
(* Store such a call returns an empty list, leaves the store unchanged and *)
(* appends no event to the event log.                                      *)
C7_AbsentKeysNoEvent ==
    [][C7_AllAbsent => (ret' = <<>> /\ store' = store /\ events' = events)]_vars

----------------------------------------------------------------------------
(* Vocabulary for Store.change.  A pair of the batch is realized when its  *)
(* old key is in the store and no earlier pair of the batch names that old *)
(* key (the earlier pair has then removed it).                             *)

OldKey(ft, i) == ft[i][1]
NewKey(ft, i) == ft[i][2][1]
NewValue(ft, i) == ft[i][2][2]

Realized(s, ft) ==
    {i \in 1..Len(ft) : /\ OldKey(ft, i) \in StoreKeys(s)
                        /\ \A h \in 1..(i - 1) : OldKey(ft, h) # OldKey(ft, i)}

SetMax(S) == CHOOSE x \in S : \A y \in S : y <= x

(* The entry, if any, that occupies the new key of the realized pair i at  *)
(* the moment it is inserted, when all removals come first: the new entry  *)
(* of the latest earlier realized pair with that new key, else the entry   *)
(* of the store at that key unless the batch removed it.                   *)
Occupant(s, ft, i) ==
    LET k == NewKey(ft, i)
        earlier == {h \in Realized(s, ft) : h < i /\ NewKey(ft, h) = k}
    IN IF earlier # {} THEN Some(<<k, NewValue(ft, SetMax(earlier))>>)
       ELSE IF k \in StoreKeys(s) /\ k \notin {OldKey(ft, h) : h \in Realized(s, ft)}
            THEN Some(<<k, StoreGet(s, k)>>)
            ELSE None

(* The store that 'remove all present old keys, then insert the new        *)
(* entries of the removed pairs in list order' yields, key by key.         *)
IsTwoPhaseResult(s, ft, t) ==
    /\ \A i \in 1..(Len(t) - 1) : t[i][1] < t[i + 1][1]
    /\ \A k \in Keys :
          LET writers == {i \in Realized(s, ft) : NewKey(ft, i) = k}
          IN IF writers # {}
             THEN k \in StoreKeys(t) /\ StoreGet(t, k) = NewValue(ft, SetMax(writers))
             ELSE IF k \in StoreKeys(s) /\ k \notin {OldKey(ft, h) : h \in Realized(s, ft)}
                  THEN k \in StoreKeys(t) /\ StoreGet(t, k) = StoreGet(s, k)
                  ELSE k \notin StoreKeys(t)

(* Pair i's new key is the old key of the later pair j, and both old keys  *)
(* are in the store.                                                       *)
Collides(s, ft, i, j) ==
    /\ i < j
    /\ NewKey(ft, i) = OldKey(ft, j)
    /\ OldKey(ft, i) \in StoreKeys(s)
    /\ OldKey(ft, j) \in StoreKeys(s)

(* C8 as stated: the result of change is that of removing all present old  *)
(* keys and then inserting the new entries in list order, and whenever     *)
(* pair i's new key is the old key of a later pair j, both old keys being  *)
(* present, the value moved by pair i is stored at its new key after the   *)
(* call, nothing is returned as displaced and len() is unchanged.          *)
C8_ChangeTwoPhaseAsStated ==
    [][(target = "store" /\ call'.op = "change") =>
          LET ft == call'.from_to
          IN /\ IsTwoPhaseResult(store, ft, store')
             /\ \A i, j \in 1..Len(ft) :
                   Collides(store, ft, i, j) =>
                      /\ NewKey(ft, i) \in StoreKeys(store')
                      /\ StoreGet(store', NewKey(ft, i)) = NewValue(ft, i)
                      /\ ret' = <<>>
                      /\ Len(store') = Len(store)
      ]_vars

(* C8 as amended: the result of change is that of removing all present old *)
(* keys and then inserting the new entries of the removed pairs in list    *)
(* order.  Whenever pair i's new key is the old key of a later pair j and  *)
(* both pairs are realized, the value moved by pair i is stored at its new *)
(* key after the call unless a later realized pair has the same new key;   *)
(* nothing is returned as displaced and len() is unchanged if moreover the *)
(* new keys of the realized pairs are pairwise distinct and each of them   *)
(* is absent from the store or the old key of a realized pair (a swap).    *)
C8_ChangeTwoPhase ==
    [][(target = "store" /\ call'.op = "change") =>
          LET ft == call'.from_to
              R == Realized(store, ft)
              freeTargets ==
                  /\ \A h, l \in R : h # l => NewKey(ft, h) # NewKey(ft, l)
                  /\ \A h \in R : \/ NewKey(ft, h) \notin StoreKeys(store)
                                  \/ NewKey(ft, h) \in {OldKey(ft, l) : l \in R}
          IN /\ IsTwoPhaseResult(store, ft, store')
             /\ \A i, j \in R :
                   Collides(store, ft, i, j) =>
                      /\ (\A l \in R : l > i => NewKey(ft, l) # NewKey(ft, i)) =>
                            /\ NewKey(ft, i) \in StoreKeys(store')
                            /\ StoreGet(store', NewKey(ft, i)) = NewValue(ft, i)
                      /\ freeTargets => (ret' = <<>> /\ Len(store') = Len(store))
      ]_vars

(* A swap [(a -> b), (b -> a)] of two present keys has been carried out:   *)
(* both keys are still there with the moved values, nothing was displaced. *)
C8_Witness ==
    /\ target = "store"
    /\ call.op = "change"
    /\ Len(call.from_to) = 2
    /\ OldKey(call.from_to, 1) # OldKey(call.from_to, 2)
    /\ NewKey(call.from_to, 1) = OldKey(call.from_to, 2)
    /\ NewKey(call.from_to, 2) = OldKey(call.from_to, 1)
    /\ {OldKey(call.from_to, 1), OldKey(call.from_to, 2)} \subseteq StoreKeys(store)
    /\ StoreGet(store, NewKey(call.from_to, 1)) = NewValue(call.from_to, 1)
    /\ StoreGet(store, NewKey(call.from_to, 2)) = NewValue(call.from_to, 2)
    /\ NewValue(call.from_to, 1) # NewValue(call.from_to, 2)
    /\ ret = <<>>

(* The indices of a set in ascending order.                                *)
RECURSIVE Ascending(_)
Ascending(S) ==
    IF S = {} THEN <<>>
    ELSE LET x == CHOOSE a \in S : \A b \in S : a <= b
         IN <<x>> \o Ascending(S \ {x})

RECURSIVE Concat(_)
Concat(ss) == IF ss = <<>> THEN <<>> ELSE Head(ss) \o Concat(Tail(ss))

(* C9  Result and event of Store.change.  A pair whose old key is absent   *)
(* is skipped: the keys after the call are the keys before, less the old   *)
(* keys of the realized pairs, plus their new keys.  The returned list is  *)
(* exactly the entries that occupied a new key when it was inserted, in    *)
(* insertion order.  A recording Store appends exactly one Changed event:  *)
(* from_to lists the realized ((old_key, old_value), (new_key, new_value)) *)
(* pairs in list order and removed is the returned list.                   *)
C9_ChangeResultAndEvent ==
    [][(target = "store" /\ call'.op = "change") =>
          LET ft == call'.from_to
              R == Realized(store, ft)
              order == Ascending(R)
              pairs == [n \in 1..Len(order) |->
                           <<<<OldKey(ft, order[n]), StoreGet(store, OldKey(ft, order[n]))>>,
                             ft[order[n]][2]>>]
              displaced == Concat([n \in 1..Len(order) |-> Occupant(store, ft, order[n])])
          IN /\ StoreKeys(store') = (StoreKeys(store) \ {OldKey(ft, i) : i \in R})
                                        \cup {NewKey(ft, i) : i \in R}
             /\ ret' = displaced
             /\ hold_events =>
                   events' = Append(events, Changed(pairs, displaced, call'.metadata))
      ]_vars

(* A change of two pairs on a recording Store of which one was skipped and *)
(* the other displaced an entry.                                           *)
C9_Witness ==
    /\ target = "store"
    /\ hold_events
    /\ call.op = "change"
    /\ Len(call.from_to) = 2
    /\ Len(events) > 0
    /\ LastEvent(events).type = "Changed"
    /\ Len(LastEvent(events).from_to) = 1
    /\ Len(ret) = 1
    /\ LastEvent(events).removed = ret

----------------------------------------------------------------------------
(* The bag contents obtained by first removing every 'from' pair of the    *)
(* batch and only then adding every 'to' pair.                             *)
RECURSIVE BagRemoveFroms(_, _, _, _)
BagRemoveFroms(b, cnt, changes, i) ==
    IF i > Len(changes) THEN [store |-> b, count |-> cnt]
    ELSE LET r == BagStore_remove_internal(b, cnt, changes[i][1][1], changes[i][1][2])
         IN BagRemoveFroms(r.store, r.count, changes, i + 1)

RECURSIVE BagAddTos(_, _, _, _)
BagAddTos(b, cnt, changes, i) ==
    IF i > Len(changes) THEN [store |-> b, count |-> cnt]
    ELSE LET a == BagStore_add_internal(b, cnt, changes[i][2][1], changes[i][2][2])
         IN BagAddTos(a.store, a.count, changes, i + 1)

BagTwoPhase(b, cnt, changes) ==
    LET r == BagRemoveFroms(b, cnt, changes, 1)
    IN BagAddTos(r.store, r.count, changes, 1)

(* C10  BagStore.change is two-phase: for every batch the resulting bag    *)
(* contents (and length) are those obtained by first removing every 'from' *)
(* pair and only then adding every 'to' pair, so that a value added by an  *)
(* earlier pair of the batch is never removed by a later pair.             *)
C10_BagChangeTwoPhase ==
    [][(target = "bag" /\ call'.op = "change") =>
          LET r == BagTwoPhase(bag, count, call'.changes)
          IN bag' = r.store /\ count' = r.count
      ]_vars

----------------------------------------------------------------------------
(* The sequence vec without the first occurrence of e.                     *)
WithoutFirst(vec, e) ==
    LET i == CHOOSE n \in 1..Len(vec) : vec[n] = e /\ \A h \in 1..(n - 1) : vec[h] # e
    IN [n \in 1..(Len(vec) - 1) |-> IF n < i THEN vec[n] ELSE vec[n + 1]]

Holds(b, k, e) == k \in DOMAIN b /\ \E n \in 1..Len(b[k]) : b[k][n] = e

(* C11  BagStore.change moving one value: change([((k1, v), (k2, w))]) on  *)
(* a store holding v under k1 removes the first v from k1's bag, leaves    *)
(* the sibling values of k1 in their order, appends w to k2's bag, leaves  *)
(* every other bag alone, and on a recording store appends exactly one     *)
(* Change event, which carries the pair ((k1, v), (k2, w)).                *)
C11_BagChangeOne ==
    [][(/\ target = "bag"
        /\ call'.op = "change"
        /\ Len(call'.changes) = 1
        /\ Holds(bag, call'.changes[1][1][1], call'.changes[1][1][2])) =>
          LET k1 == call'.changes[1][1][1]
              v == call'.changes[1][1][2]
              k2 == call'.changes[1][2][1]
              w == call'.changes[1][2][2]
              siblings == WithoutFirst(bag[k1], v)
          IN /\ IF k1 = k2
                THEN MapGet(bag', k1) = Append(siblings, w)
                ELSE /\ MapGet(bag', k1) = siblings
                     /\ MapGet(bag', k2) = Append(MapGet(bag, k2), w)
             /\ \A k \in BagKeys \ {k1, k2} : MapGet(bag', k) = MapGet(bag, k)
             /\ count' = count
             /\ IF hold_events
                THEN bag_events' = Append(bag_events, BagChange(<<<<<<k1, v>>, <<k2, w>>>>>>))
                ELSE bag_events' = bag_events
      ]_vars

(* A recorded change of one pair has moved a value to a key that had no    *)
(* bag and has left a sibling behind under the old key.                    *)
C11_Witness ==
    /\ target = "bag"
    /\ hold_events
    /\ call.op = "change"
    /\ Len(call.changes) = 1
    /\ call.changes[1][1][1] # call.changes[1][2][1]
    /\ call.changes[1][1][2] # call.changes[1][2][2]
    /\ count = 2
    /\ MapGet(bag, call.changes[1][1][1]) = <<call.changes[1][2][2]>>
    /\ MapGet(bag, call.changes[1][2][1]) = <<call.changes[1][2][2]>>
    /\ bag_events = <<BagChange(call.changes)>>

----------------------------------------------------------------------------
(* Vocabulary for range: the key k satisfies the start / end bound b.      *)
AfterStart(k, b) ==
    \/ b.kind = "Unbounded"
    \/ b.kind = "Included" /\ b.key <= k
    \/ b.kind = "Excluded" /\ b.key < k

BeforeEnd(k, b) ==
    \/ b.kind = "Unbounded"
    \/ b.kind = "Included" /\ k <= b.key
    \/ b.kind = "Excluded" /\ k < b.key

(* The start of the bounds is not after their end.                         *)
StartNotAfterEnd(start, end) ==
    start.kind = "Unbounded" \/ end.kind = "Unbounded" \/ start.key <= end.key

InRange(s, start, end) ==
    SelectSeq(s, LAMBDA e : AfterStart(e[1], start) /\ BeforeEnd(e[1], end))

(* C12  Range correctness of Store.range: for any bounds with start not    *)
(* after end (each bound inclusive, exclusive or unbounded) the call       *)
(* returns, without panicking, exactly the entries whose keys satisfy the  *)
(* bounds, in key order (an empty slice when there are none), and when the *)
(* slice is not empty the returned start index is the position in the      *)
(* store of its first entry.                                               *)
C12_RangeCorrect ==
    [][(/\ target = "store"
        /\ call'.op = "range"
        /\ StartNotAfterEnd(call'.start, call'.end)) =>
          /\ ~ret'.panic
          /\ ret'.slice = InRange(store, call'.start, call'.end)
          /\ ret'.slice # <<>> => store[ret'.start + 1] = ret'.slice[1]
      ]_vars

----------------------------------------------------------------------------
(* The positions of s whose key is at most k / at least k.                 *)
AtMost(s, k) == {i \in 1..Len(s) : s[i][1] <= k}
AtLeast(s, k) == {i \in 1..Len(s) : s[i][1] >= k}

(* C13  Store.just_before(k) yields the entry with the largest key <= k    *)
(* and then every following entry in ascending key order; it yields        *)
(* nothing when the store is empty or every key is greater than k.  The    *)
(* store and its log are left alone.                                       *)
C13_JustBefore ==
    [][(target = "store" /\ call'.op = "just_before") =>
          LET k == call'.key
              below == AtMost(store, k)
          IN /\ IF below = {} THEN ret' = <<>>
                ELSE LET i == CHOOSE n \in below :
                                  \A h \in below : store[h][1] <= store[n][1]
                     IN ret' = SubSeq(store, i, Len(store))
             /\ \A n \in 1..(Len(ret') - 1) : ret'[n][1] < ret'[n + 1][1]
             /\ store' = store
             /\ events' = events
      ]_vars

(* just_before(k) for a key that is not in the store has started at the    *)
(* entry below k and has gone on to the entry above k.                     *)
C13_Witness ==
    /\ target = "store"
    /\ call.op = "just_before"
    /\ Len(ret) = 2
    /\ ret[1][1] < call.key
    /\ call.key < ret[2][1]

(* C14  Store.just_after(k) yields the entry with the smallest key >= k    *)
(* and then every following entry in ascending key order; it yields        *)
(* nothing when the store is empty or every key is smaller than k.  The    *)
(* store and its log are left alone.                                       *)
C14_JustAfter ==
    [][(target = "store" /\ call'.op = "just_after") =>
          LET k == call'.key
              above == AtLeast(store, k)
          IN /\ IF above = {} THEN ret' = <<>>
                ELSE LET i == CHOOSE n \in above :
                                  \A h \in above : store[n][1] <= store[h][1]
                     IN ret' = SubSeq(store, i, Len(store))
             /\ \A n \in 1..(Len(ret') - 1) : ret'[n][1] < ret'[n + 1][1]
             /\ store' = store
             /\ events' = events
      ]_vars

(* just_after(k) for a key that is not in the store has skipped the entry  *)
(* below k and has started at the entry above k.                           *)
C14_Witness ==
    /\ target = "store"
    /\ call.op = "just_after"
    /\ Len(store) = 2
    /\ store[1][1] < call.key
    /\ ret = <<store[2]>>
    /\ call.key < ret[1][1]

----------------------------------------------------------------------------
(* The entry, if any, that the i-th entry of a bulk_add batch displaces:   *)
(* the latest earlier entry of the batch with the same key, else the entry *)
(* of the store at that key.                                               *)
BulkDisplaced(s, recs, i) ==
    LET k == recs[i][1]
        earlier == {h \in 1..(i - 1) : recs[h][1] = k}
    IN IF earlier # {} THEN Some(recs[SetMax(earlier)])
       ELSE IF k \in StoreKeys(s) THEN Some(<<k, StoreGet(s, k)>>)
       ELSE None

(* C15  Store.bulk_add(entries): after the call every key of the batch is  *)
(* present with the value of its last occurrence in the batch and entries  *)
(* at other keys are as before; the returned list holds, in batch order,   *)
(* every entry displaced by a same-key replacement (entries of the store   *)
(* and earlier entries of the batch alike); a recording Store appends      *)
(* exactly one BulkAddedRemoved event, with added = the full batch and     *)
(* removed = the returned list.                                            *)
C15_BulkAdd ==
    [][(target = "store" /\ call'.op = "bulk_add") =>
          LET recs == call'.recs
              batchKeys == {recs[i][1] : i \in 1..Len(recs)}
              last(k) == SetMax({i \in 1..Len(recs) : recs[i][1] = k})
          IN /\ StoreKeys(store') = StoreKeys(store) \cup batchKeys
             /\ \A k \in batchKeys : StoreGet(store', k) = recs[last(k)][2]
             /\ \A k \in StoreKeys(store) \ batchKeys : StoreGet(store', k) = StoreGet(store, k)
             /\ ret' = Concat([i \in 1..Len(recs) |-> BulkDisplaced(store, recs, i)])
             /\ IF hold_events
                THEN events' = Append(events, BulkAddedRemoved(recs, ret', call'.metadata))
                ELSE events' = events
      ]_vars

(* A recorded bulk_add of one key twice, on a store that held that key,    *)
(* has displaced the stored value and then the first value of the batch.   *)
C15_Witness ==
    /\ target = "store"
    /\ hold_events
    /\ call.op = "bulk_add"
    /\ Len(call.recs) = 2
    /\ call.recs[1][1] = call.recs[2][1]
    /\ call.recs[1][2] # call.recs[2][2]
    /\ Len(ret) = 2
    /\ ret[1][2] # ret[2][2]
    /\ ret[2] = call.recs[1]
    /\ StoreGet(store, call.recs[2][1]) = call.recs[2][2]
    /\ Len(events) > 0
    /\ events[Len(events)] = BulkAddedRemoved(call.recs, ret, call.metadata)

----------------------------------------------------------------------------
(* The entry, if any, that the i-th key of a bulk_remove list removes: the *)
(* entry of the store at that key, unless the key is listed earlier too.   *)
BulkRemoved(s, recs, i) ==
    IF recs[i] \in StoreKeys(s) /\ \A h \in 1..(i - 1) : recs[h] # recs[i]
    THEN Some(<<recs[i], StoreGet(s, recs[i])>>)
    ELSE None

(* C16  Store.bulk_remove(keys) removes every listed key that is present   *)
(* and returns the removed entries in the order the keys were listed (a    *)
(* key that is absent, or listed before, contributes nothing); entries at  *)
(* unlisted keys are unchanged; a recording Store appends exactly one      *)
(* BulkAddedRemoved event whose added side is empty and whose removed side *)
(* is the returned list.                                                   *)
C16_BulkRemove ==
    [][(target = "store" /\ call'.op = "bulk_remove") =>
          LET recs == call'.recs
              listed == {recs[i] : i \in 1..Len(recs)}
          IN /\ StoreKeys(store') = StoreKeys(store) \ listed
             /\ \A k \in StoreKeys(store') : StoreGet(store', k) = StoreGet(store, k)
             /\ ret' = Concat([i \in 1..Len(recs) |-> BulkRemoved(store, recs, i)])
             /\ IF hold_events
                THEN events' = Append(events, BulkAddedRemoved(<<>>, ret', call'.metadata))
                ELSE events' = events
      ]_vars

(* A recorded bulk_remove of two different keys, both present, has left    *)
(* one entry in the store and has returned the two entries as listed, the  *)
(* higher key first.                                                       *)
C16_Witness ==
    /\ target = "store"
    /\ hold_events
    /\ call.op = "bulk_remove"
    /\ Len(call.recs) = 2
    /\ call.recs[1] > call.recs[2]
    /\ Len(ret) = 2
    /\ ret[1][1] = call.recs[1]
    /\ ret[2][1] = call.recs[2]
    /\ Len(store) = 1
    /\ events = <<BulkAddedRemoved(<<>>, ret, call.metadata)>>

----------------------------------------------------------------------------
(* Bulk round-trip.  The first half is the bulk_add step itself; the       *)
(* second half is what bulk_remove makes of the state that step leaves.    *)

BatchKeys(recs) == [i \in 1..Len(recs) |-> recs[i][1]]

StoreAfterBulkRemove(s, recs) == Store_bulk_remove_loop(s, BatchKeys(recs), 1, <<>>).store

BagAfterBulkRemove(b, cnt, models) == BagStore_bulk_remove_loop(b, cnt, models, 1)

(* C17 as stated: for any store state and any batch, bulk_add of the batch *)
(* followed by bulk_remove of the same key set (BagStore: of the same      *)
(* (key, value) pairs) returns the store to its prior contents, including  *)
(* per-key value order in the BagStore, and to its prior length.           *)
C17_BulkRoundTripAsStated ==
    [][(call'.op = "bulk_add") =>
          IF target = "store"
          THEN StoreAfterBulkRemove(store', call'.recs) = store
          ELSE LET r == BagAfterBulkRemove(bag', count', call'.models)
               IN r.store = bag /\ r.count = count
      ]_vars

(* C17 as amended.  Store: when no key of the batch is in the store,       *)
(* bulk_add followed by bulk_remove of the batch's keys restores the prior *)
(* contents and length; a batch key that was in the store is gone          *)
(* afterwards.  BagStore: bulk_add followed by bulk_remove of the same     *)
(* pairs always restores the prior length; when no value of the batch      *)
(* already occurs under its key, every key's value sequence is restored,   *)
(* order included, except that a batch key that held an empty sequence     *)
(* before is no longer a key afterwards.                                   *)
C17_BulkRoundTrip ==
    [][(call'.op = "bulk_add") =>
          IF target = "store"
          THEN LET recs == call'.recs
                   batchKeys == {recs[i][1] : i \in 1..Len(recs)}
                   t == StoreAfterBulkRemove(store', recs)
               IN /\ batchKeys \cap StoreKeys(store) = {} => t = store
                  /\ StoreKeys(t) = StoreKeys(store) \ batchKeys
          ELSE LET models == call'.models
                   batchKeys == {models[i][1] : i \in 1..Len(models)}
                   r == BagAfterBulkRemove(bag', count', models)
               IN /\ r.count = count
                  /\ (\A i \in 1..Len(models) : ~Holds(bag, models[i][1], models[i][2])) =>
                        /\ \A k \in BagKeys : MapGet(r.store, k) = MapGet(bag, k)
                        /\ DOMAIN r.store =
                              DOMAIN bag \ {k \in batchKeys : MapGet(bag, k) = <<>>}
      ]_vars

(* A bulk_add of two keys that were not in the store has just been made on *)
(* a store that held one entry, and bulk_remove of the two keys leads back *)
(* to that one entry.                                                      *)
C17_Witness ==
    /\ target = "store"
    /\ call.op = "bulk_add"
    /\ Len(call.recs) = 2
    /\ call.recs[1][1] # call.recs[2][1]
    /\ ret = <<>>
    /\ Len(store) = 3
    /\ Len(StoreAfterBulkRemove(store, call.recs)) = 1

----------------------------------------------------------------------------
(* C18  Store.pop_first on a non-empty Store removes and returns the entry *)
(* with the lowest key, decreases len() by 1, leaves all other entries     *)
(* unchanged, and on a recording Store appends exactly one Removed event   *)
(* carrying the removed value; on an empty Store it returns None, changes  *)
(* nothing and appends no event.                                           *)
C18_PopFirst ==
    [][(target = "store" /\ call'.op = "pop_first") =>
          IF store = <<>>
          THEN ret' = None /\ store' = store /\ events' = events
          ELSE LET low == CHOOSE k \in StoreKeys(store) : \A x \in StoreKeys(store) : k <= x
               IN /\ ret' = Some(<<low, StoreGet(store, low)>>)
                  /\ Len(store') = Len(store) - 1
                  /\ StoreKeys(store') = StoreKeys(store) \ {low}
                  /\ \A k \in StoreKeys(store') : StoreGet(store', k) = StoreGet(store, k)
                  /\ IF hold_events
                     THEN events' = Append(events, Removed(StoreGet(store, low)))
                     ELSE events' = events
      ]_vars

(* A recorded pop_first has taken the lowest of three entries.             *)
C18_Witness ==
    /\ target = "store"
    /\ hold_events
    /\ call.op = "pop_first"
    /\ ret # None
    /\ Len(store) = 2
    /\ ret[1][1] < store[1][1]
    /\ events = <<Removed(ret[1][2])>>

----------------------------------------------------------------------------
(* C19  Store.replace(k, metadata, f) is an upsert that calls f exactly    *)
(* once.  With k present f receives the current value, the entry's value   *)
(* becomes f's result, and a recording Store appends one Changed event     *)
(* with from_to = [((k, old), (k, new))] and empty removed.  With k absent *)
(* f receives None, (k, f(None)) is inserted at the sorted position, and a *)
(* recording Store appends one Added event.  The event carries the call's  *)
(* metadata; the other entries are left alone.                             *)
C19_Replace ==
    [][(target = "store" /\ call'.op = "replace") =>
          LET k == call'.key
              f == call'.f
              m == call'.metadata
          IN /\ Len(call'.f_args) = 1
             /\ \A x \in StoreKeys(store) \ {k} :
                   x \in StoreKeys(store') /\ StoreGet(store', x) = StoreGet(store, x)
             /\ StoreKeys(store') = StoreKeys(store) \cup {k}
             /\ \A i \in 1..(Len(store') - 1) : store'[i][1] < store'[i + 1][1]
             /\ ~hold_events => events' = events
             /\ IF k \in StoreKeys(store)
                THEN LET old == StoreGet(store, k)
                     IN /\ call'.f_args[1] = Some(old)
                        /\ StoreGet(store', k) = f[Some(old)]
                        /\ hold_events =>
                              events' = Append(events,
                                  Changed(<<<<<<k, old>>, <<k, f[Some(old)]>>>>>>, <<>>, m))
                ELSE /\ call'.f_args[1] = None
                     /\ StoreGet(store', k) = f[None]
                     /\ hold_events => events' = Append(events, Added(f[None], m))
      ]_vars

(* A recorded replace of a present key, with a closure that tells Some     *)
(* from None, has changed the value in the middle of three entries.        *)
C19_Witness ==
    /\ target = "store"
    /\ hold_events
    /\ call.op = "replace"
    /\ Len(store) = 3
    /\ store[2][1] = call.key
    /\ Len(events) = 1
    /\ events[1].type = "Changed"
    /\ events[1].from_to[1][1][2] # events[1].from_to[1][2][2]
    /\ call.f[None] # store[2][2]
    /\ events[1].metadata = call.metadata

----------------------------------------------------------------------------
(* C20  Store.replace_mut on a recording Store with k present and f        *)
(* returning None: a Changed event is appended only when the value after   *)
(* the call differs from the value before it (the snapshot); when f        *)
(* returns None without mutating the value, no event is appended.          *)
C20_ReplaceMutDiff ==
    [][(/\ target = "store"
        /\ hold_events
        /\ call'.op = "replace_mut"
        /\ call'.key \in StoreKeys(store)
        /\ call'.result = None) =>
          LET k == call'.key
              before == StoreGet(store, k)
              after == StoreGet(store', k)
          IN IF after # before
             THEN events' = Append(events,
                      Changed(<<<<<<k, before>>, <<k, after>>>>>>, <<>>, call'.metadata))
             ELSE events' = events
      ]_vars

----------------------------------------------------------------------------
(* C21  Store.replace_mut upsert semantics.  With k absent and f returning *)
(* None the store and the event log are unchanged; with k absent and f     *)
(* returning Some(v), (k, v) is inserted and a recording Store appends one *)
(* Added event with the call's metadata; with k present, an in-place       *)
(* mutation (f returns None) or a replacement (f returns Some(v)) leaves   *)
(* len() unchanged and a recording Store appends one Changed event whose   *)
(* from side is the value before the call and whose to side is the value   *)
(* after it.  The other entries are left alone.                            *)
C21_ReplaceMut ==
    [][(target = "store" /\ call'.op = "replace_mut") =>
          LET k == call'.key
              m == call'.metadata
              result == call'.result
          IN /\ \A x \in StoreKeys(store) \ {k} :
                   x \in StoreKeys(store') /\ StoreGet(store', x) = StoreGet(store, x)
             /\ \A i \in 1..(Len(store') - 1) : store'[i][1] < store'[i + 1][1]
             /\ ~hold_events => events' = events
             /\ IF k \notin StoreKeys(store)
                THEN IF result = None
                     THEN store' = store /\ events' = events
                     ELSE /\ StoreKeys(store') = StoreKeys(store) \cup {k}
                          /\ StoreGet(store', k) = result[1]
                          /\ hold_events => events' = Append(events, Added(result[1], m))
                ELSE LET before == StoreGet(store, k)
                         after == IF result = None THEN call'.mutated ELSE result[1]
                     IN /\ Len(store') = Len(store)
                        /\ StoreKeys(store') = StoreKeys(store)
                        /\ StoreGet(store', k) = after
                        /\ hold_events =>
                              events' = Append(events,
                                  Changed(<<<<<<k, before>>, <<k, after>>>>>>, <<>>, m))
      ]_vars

(* A recorded replace_mut whose closure mutated the value in place and     *)
(* returned None has changed the value of a present key.                   *)
C21_Witness ==
    /\ target = "store"
    /\ hold_events
    /\ call.op = "replace_mut"
    /\ call.result = None
    /\ Len(store) = 2
    /\ Len(events) = 1
    /\ events[1].type = "Changed"
    /\ events[1].from_to[1][2] = <<call.key, call.mutated>>
    /\ events[1].from_to[1][1][2] # call.mutated
    /\ StoreGet(store, call.key) = call.mutated

----------------------------------------------------------------------------
(* C22  Store.retain_values(metadata, predicate) removes exactly the       *)
(* entries whose value fails the predicate, keeps the survivors in their   *)
(* ascending key order, returns the removed entries in ascending key       *)
(* order, and on a recording Store appends exactly one BulkAddedRemoved    *)
(* event with empty added, removed = the returned list, and the call's     *)
(* metadata.                                                               *)
C22_RetainValues ==
    [][(target = "store" /\ call'.op = "retain_values") =>
          LET keep == call'.keep
          IN /\ store' = SelectSeq(store, LAMBDA e : e[2] \in keep)
             /\ ret' = SelectSeq(store, LAMBDA e : e[2] \notin keep)
             /\ \A i \in 1..(Len(ret') - 1) : ret'[i][1] < ret'[i + 1][1]
             /\ IF hold_events
                THEN events' = Append(events, BulkAddedRemoved(<<>>, ret', call'.metadata))
                ELSE events' = events
      ]_vars

(* A recorded retain_values has removed the lowest and the highest of      *)
(* three entries and has kept the one between them.                        *)
C22_Witness ==
    /\ target = "store"
    /\ hold_events
    /\ call.op = "retain_values"
    /\ Len(ret) = 2
    /\ Len(store) = 1
    /\ ret[1][1] < store[1][1]
    /\ store[1][1] < ret[2][1]
    /\ store[1][2] \in call.keep
    /\ events = <<BulkAddedRemoved(<<>>, ret, call.metadata)>>

----------------------------------------------------------------------------
(* C23  Event accessor: events() on a Store or BagStore constructed with   *)
(* hold_events = false halts execution, whatever operations were applied   *)
(* before; events() on a store constructed with hold_events = true never   *)
(* halts and returns the accumulated log.  The store is left alone.        *)
C23_EventsAccessor ==
    [][(call'.op = "events") =>
          /\ ret'.panic = ~hold_events
          /\ hold_events =>
                ret'.events = (IF target = "store" THEN events ELSE bag_events)
          /\ UNCHANGED <<store, events, bag, count, bag_events>>
      ]_vars

(* events() has halted a Store without a log that holds two entries.       *)
C23_Witness ==
    /\ target = "store"
    /\ ~hold_events
    /\ call.op = "events"
    /\ ret.panic
    /\ Len(store) = 2
    /\ Halted

----------------------------------------------------------------------------
(* C24  No other abnormal termination: apart from events() on a store that *)
(* holds no log, every Store operation completes normally for every        *)
(* argument in every reachable state, range with any pair of bounds and    *)
(* update_at_idx with any index included.                                  *)
C24_NoOtherPanic ==
    [][(target = "store" /\ call'.op # "events") => ~Halted']_vars

----------------------------------------------------------------------------
IsPrefix(s, t) == Len(s) <= Len(t) /\ SubSeq(t, 1, Len(s)) = s

(* C25  The event log of a recording store is append-only: every operation *)
(* other than clear_events leaves the events already in the log unchanged  *)
(* as a prefix of the new log (the log never shrinks, nothing in it is     *)
(* changed or reordered); clear_events empties the log and leaves the      *)
(* store contents and length unchanged.                                    *)
C25_AppendOnlyLog ==
    [][IF call'.op = "clear_events"
       THEN /\ events' = <<>>
            /\ bag_events' = <<>>
            /\ UNCHANGED <<store, bag, count>>
       ELSE /\ IsPrefix(events, events')
            /\ IsPrefix(bag_events, bag_events')
      ]_vars

(* A recording Store has appended the event of a bulk_add behind the       *)
(* ClearedAll that was already in its log.                                 *)
C25_Witness ==
    /\ target = "store"
    /\ hold_events
    /\ call.op = "bulk_add"
    /\ Len(store) = 2
    /\ Len(events) = 2
    /\ events[1] = ClearedAll
    /\ events[2].type = "BulkAddedRemoved"

----------------------------------------------------------------------------
WithMetadata == {"add", "change", "bulk_add", "bulk_remove", "replace", "replace_mut",
                 "retain_values", "update_at_idx"}

(* C26  Metadata attachment: every event appended by a Store operation     *)
(* that is given a metadata argument carries the metadata value passed to  *)
(* that call, the Removed event appended by an add that replaces an        *)
(* existing key included.                                                  *)
C26_MetadataAttached ==
    [][(target = "store" /\ hold_events /\ call'.op \in WithMetadata) =>
          \A i \in (Len(events) + 1)..Len(events') :
              /\ "metadata" \in DOMAIN events'[i]
              /\ events'[i].metadata = call'.metadata
      ]_vars

----------------------------------------------------------------------------
(* C27  BagStore.add(k, v) appends v at the end of k's value sequence      *)
(* (creating the sequence when k is absent), leaves the values already     *)
(* under k and all other keys unchanged and in order, increases len() by   *)
(* 1, and on a recording store appends exactly one Add event carrying v.   *)
C27_BagAdd ==
    [][(target = "bag" /\ call'.op = "add") =>
          LET k == call'.key
              v == call'.value
          IN /\ DOMAIN bag' = DOMAIN bag \cup {k}
             /\ bag'[k] = Append(MapGet(bag, k), v)
             /\ \A x \in DOMAIN bag \ {k} : bag'[x] = bag[x]
             /\ count' = count + 1
             /\ IF hold_events
                THEN bag_events' = Append(bag_events, BagAdd(v))
                ELSE bag_events' = bag_events
      ]_vars

(* A recorded add has put a value behind a different value under its key,  *)
(* next to another key.                                                    *)
C27_Witness ==
    /\ target = "bag"
    /\ hold_events
    /\ call.op = "add"
    /\ Len(MapGet(bag, call.key)) = 2
    /\ bag[call.key][2] = call.value
    /\ bag[call.key][1] # call.value
    /\ Cardinality(DOMAIN bag) = 2
    /\ count = 3
    /\ bag_events = <<BagAdd(call.value)>>

----------------------------------------------------------------------------
(* C28  BagStore.remove(k, v), with v held under k, removes only the first *)
(* value equal to v under k (later equal values and all sibling values     *)
(* stay, in their order), returns that value, decreases len() by 1, and    *)
(* drops k from the mapping when its sequence becomes empty; values under  *)
(* other keys are never touched.                                           *)
C28_BagRemove ==
    [][(/\ target = "bag"
        /\ call'.op = "remove"
        /\ Holds(bag, call'.key, call'.value)) =>
          LET k == call'.key
              v == call'.value
              rest == WithoutFirst(bag[k], v)
          IN /\ ret' = Some(v)
             /\ count' = count - 1
             /\ MapGet(bag', k) = rest
             /\ k \in DOMAIN bag' <=> rest # <<>>
             /\ DOMAIN bag' \ {k} = DOMAIN bag \ {k}
             /\ \A x \in DOMAIN bag \ {k} : bag'[x] = bag[x]
      ]_vars

(* A remove has taken the first of two equal values and has left the       *)
(* sibling between them and the second one.                                *)
C28_Witness ==
    /\ target = "bag"
    /\ call.op = "remove"
    /\ ret = Some(call.value)
    /\ count = 2
    /\ Len(MapGet(bag, call.key)) = 2
    /\ bag[call.key][1] # call.value
    /\ bag[call.key][2] = call.value

----------------------------------------------------------------------------
(* What is left of the sequence cur, and what has been taken out of it,    *)
(* when each value of the list is taken out once, in listed order, at its  *)
(* first occurrence, a value that does not occur being skipped.            *)
RECURSIVE TakeEach(_, _, _)
TakeEach(cur, listed, taken) ==
    IF listed = <<>> THEN [left |-> cur, taken |-> taken]
    ELSE IF \E n \in 1..Len(cur) : cur[n] = Head(listed)
         THEN TakeEach(WithoutFirst(cur, Head(listed)), Tail(listed),
                       Append(taken, Head(listed)))
         ELSE TakeEach(cur, Tail(listed), taken)

(* C29  BagStore.remove_vec(k, values) removes, for each listed value in   *)
(* listed order, the first occurrence of that value under k if there is    *)
(* one and skips a value that is not there; len() decreases by the number  *)
(* of values removed; a recording store appends exactly one RemoveVec      *)
(* event whose payload is the values removed, in removal order.  Other     *)
(* keys are not touched.                                                   *)
C29_BagRemoveVec ==
    [][(target = "bag" /\ call'.op = "remove_vec") =>
          LET k == call'.key
              r == TakeEach(MapGet(bag, k), call'.values, <<>>)
          IN /\ MapGet(bag', k) = r.left
             /\ \A x \in BagKeys \ {k} : MapGet(bag', x) = MapGet(bag, x)
             /\ count' = count - Len(r.taken)
             /\ IF hold_events
                THEN bag_events' = Append(bag_events, BagRemoveVec(r.taken))
                ELSE bag_events' = bag_events
      ]_vars

(* A recorded remove_vec of two values has removed the one that was there, *)
(* has skipped the other and has left a sibling under the key.             *)
C29_Witness ==
    /\ target = "bag"
    /\ hold_events
    /\ call.op = "remove_vec"
    /\ Len(call.values) = 2
    /\ call.values[1] = call.values[2]
    /\ bag_events = <<BagRemoveVec(<<call.values[1]>>)>>
    /\ Len(MapGet(bag, call.key)) = 1
    /\ bag[call.key][1] # call.values[1]
    /\ count = 1

----------------------------------------------------------------------------
(* C30  BagStore.pop_first on a non-empty store (len() > 0) removes the    *)
(* lowest key together with its whole value sequence, returns (key,        *)
(* values) with the values in insertion order, decreases len() by the      *)
(* number of values returned, and on a recording store appends exactly one *)
(* RemoveVec event carrying those values; on an empty store (len() = 0,    *)
(* is_empty()) it returns None, changes nothing and appends no event.      *)
C30_BagPopFirst ==
    [][(target = "bag" /\ call'.op = "pop_first") =>
          IF count = 0
          THEN ret' = None /\ UNCHANGED <<bag, count, bag_events>>
          ELSE LET low == CHOOSE k \in DOMAIN bag : \A x \in DOMAIN bag : k <= x
               IN /\ ret' = Some(<<low, bag[low]>>)
                  /\ DOMAIN bag' = DOMAIN bag \ {low}
                  /\ \A x \in DOMAIN bag' : bag'[x] = bag[x]
                  /\ count' = count - Len(bag[low])
                  /\ IF hold_events
                     THEN bag_events' = Append(bag_events, BagRemoveVec(bag[low]))
                     ELSE bag_events' = bag_events
      ]_vars

----------------------------------------------------------------------------
(* The (key, value) pairs of a bag store: ascending by key, and within a   *)
(* key in the order of its value sequence.                                 *)
Flattened(m) ==
    LET ks == Ascending(DOMAIN m)
    IN Concat([i \in 1..Len(ks) |->
                  [j \in 1..Len(m[ks[i]]) |-> <<ks[i], m[ks[i]][j]>>]])

(* C31  BagStore flattening iteration: in every reachable state iter()     *)
(* yields each stored (key, value) pair exactly once, ascending by key and *)
(* in insertion order within a key, hence exactly len() pairs; range with  *)
(* any bounds yields, in the same order, exactly the pairs whose key lies  *)
(* within the bounds.                                                      *)
C31_BagIteration ==
    [][(target = "bag" /\ call'.op \in {"iter", "range"}) =>
          IF call'.op = "iter"
          THEN ret' = Flattened(bag) /\ Len(ret') = count
          ELSE /\ ~ret'.panic
               /\ ret'.pairs = SelectSeq(Flattened(bag),
                                         LAMBDA p : /\ AfterStart(p[1], call'.start)
                                                    /\ BeforeEnd(p[1], call'.end))
      ]_vars

----------------------------------------------------------------------------
(* Vocabulary of the Logs properties.                                      *)

Appends == {"info", "warn", "err"}
SeverityOf(op) ==
    IF op = "info" THEN Severity_Info ELSE IF op = "warn" THEN Severity_Warn ELSE Severity_Err

Min(a, b) == IF a <= b THEN a ELSE b

(* The last n elements of s.                                               *)
LastN(s, n) == SubSeq(s, Len(s) - n + 1, Len(s))

(* C32  Capacity bound of Logs: for Logs::new(size) with any size, 0       *)
(* included, after any sequence of info / warn / err appends logs() never  *)
(* returns more than size entries.                                         *)
C32_CapacityBound == target = "logs" => Len(Logs_logs(logs)) <= size

(* C33  FIFO eviction of Logs: with size >= 1, after n appends logs()      *)
(* yields exactly the most recent min(n, size) entries in append order,    *)
(* oldest first; an append to a full log evicts exactly one entry, the     *)
(* oldest, and an append to a log that is not full evicts nothing.         *)
C33_FifoEviction ==
    [][(target = "logs" /\ size >= 1 /\ call'.op \in Appends /\ ~ret'.panic) =>
          LET e == Entry_new(SeverityOf(call'.op), call'.text)
          IN /\ appended' = Append(appended, e)
             /\ Logs_logs(logs') = LastN(appended', Min(Len(appended'), size))
             /\ IF Len(logs) = size
                THEN Logs_logs(logs') = Append(Tail(logs), e)
                ELSE Logs_logs(logs') = Append(logs, e)
      ]_vars

(* An append has evicted: more entries were appended than the log holds.   *)
C33_Witness ==
    /\ target = "logs"
    /\ call.op \in Appends
    /\ ~ret.panic
    /\ size = 2
    /\ Len(appended) = 3
    /\ appended[1] # appended[2]
    /\ logs = <<appended[2], appended[3]>>

(* The elements of s, each at its first occurrence only.                   *)
RECURSIVE FirstOccurrences(_)
FirstOccurrences(s) ==
    IF s = <<>> THEN <<>>
    ELSE LET front == FirstOccurrences(SubSeq(s, 1, Len(s) - 1))
             x == s[Len(s)]
         IN IF \E i \in 1..Len(front) : front[i] = x THEN front ELSE Append(front, x)

(* C34  Observer fan-out of Logs: every append notifies each registered    *)
(* observer that is still alive exactly once with the appended entry, in   *)
(* registration order; an observer dropped before the append is not        *)
(* notified by it and is removed from the observer list during it, while   *)
(* live observers are never removed.                                       *)
C34_ObserverFanOut ==
    [][(target = "logs" /\ call'.op \in Appends) =>
          LET live == SelectSeq(observers, LAMBDA o : o \in alive)
          IN /\ ~ret'.panic
             /\ ret'.notified = FirstOccurrences(live)
             /\ observers' = live
             /\ appended' = Append(appended, Entry_new(SeverityOf(call'.op), call'.text))
      ]_vars

----------------------------------------------------------------------------
(* C35  Finder equivalence: for any Store and any sequence of probe keys,  *)
(* monotonic or not, each Finder.just_before(key) returns the entry with   *)
(* the largest key <= key, or None when every key is greater than the      *)
(* probe, whatever index the earlier calls left cached.                    *)
C35_FinderEquivalence ==
    [][(target = "finder" /\ call'.op = "just_before") =>
          LET below == AtMost(store, call'.key)
          IN IF below = {} THEN ret' = None
             ELSE ret' = Some(store[CHOOSE n \in below : \A h \in below : h <= n])
      ]_vars

(* A probe between two keys, answered after an earlier call with a larger  *)
(* probe cached the last index.                                            *)
C35_Witness ==
    /\ target = "finder"
    /\ call = [op |-> "just_before", key |-> 2, cached |-> Some(1)]
    /\ Len(store) = 2
    /\ store[1][1] = 1
    /\ store[2][1] = 3
    /\ ret = Some(store[1])
    /\ locator = Some(0)

(* The pairs of neighbours of s.                                           *)
Neighbours(s) == [i \in 1..(Len(s) - 1) |-> <<s[i], s[i + 1]>>]

(* C36  Sliding window adapter: over a sequence x1..xn sliding yields      *)
(* exactly the n-1 pairs (x1,x2), (x2,x3), ..., (x(n-1),xn) in order and   *)
(* then ends; for n = 0 and n = 1 it yields nothing.                       *)
C36_Sliding ==
    [][(target = "sliding" /\ call'.op = "next") =>
          LET all == Neighbours(src)
          IN IF Len(yielded) < Len(all)
             THEN /\ ret' = Some(all[Len(yielded) + 1])
                  /\ yielded' = Append(yielded, all[Len(yielded) + 1])
             ELSE /\ ret' = None
                  /\ yielded' = yielded
                  /\ yielded = all
      ]_vars

(* A sequence of four elements has ended after its three pairs.            *)
C36_Witness ==
    /\ target = "sliding"
    /\ call.op = "next"
    /\ ret = None
    /\ src = <<1, 2, 3, 1>>
    /\ yielded = <<<<1, 2>>, <<2, 3>>, <<3, 1>>>>

----------------------------------------------------------------------------
(* The realized pairs of ft that write the key k, and the number of        *)
(* collisions of a call: for every new key, its writers less one.          *)
Writers(s, ft, k) == {i \in Realized(s, ft) : NewKey(ft, i) = k}

RECURSIVE Collisions(_, _, _)
Collisions(s, ft, ks) ==
    IF ks = {} THEN 0
    ELSE LET k == CHOOSE x \in ks : TRUE
             n == Cardinality(Writers(s, ft, k))
         IN (IF n > 1 THEN n - 1 ELSE 0) + Collisions(s, ft, ks \ {k})

(* The new keys at which the call finds an entry that it did not remove.   *)
DisplacedResidents(s, ft) ==
    {k \in StoreKeys(s) : /\ Writers(s, ft, k) # {}
                          /\ k \notin {OldKey(ft, h) : h \in Realized(s, ft)}}

(* The later of two realized pairs with one new key wins, and the new      *)
(* entry of the earlier one is returned as displaced.                      *)
LastWriterWins(s, ft, t, r) ==
    \A i, j \in Realized(s, ft) :
        (i < j /\ NewKey(ft, i) = NewKey(ft, j)) =>
            /\ NewKey(ft, j) \in StoreKeys(t)
            /\ StoreGet(t, NewKey(ft, j)) = NewValue(ft, SetMax(Writers(s, ft, NewKey(ft, j))))
            /\ \E n \in 1..Len(r) : r[n] = ft[i][2]

(* C37 as stated: when two realized pairs of one change call target the    *)
(* same new key, the value stored at that key after the call is that of    *)
(* the later pair, the earlier pair's new value is in the returned         *)
(* displaced list, and len() ends one lower for each such collision.       *)
C37_TieBreakAsStated ==
    [][(target = "store" /\ call'.op = "change") =>
          LET ft == call'.from_to
              n == Collisions(store, ft, Keys)
          IN /\ LastWriterWins(store, ft, store', ret')
             /\ n > 0 => Len(store') = Len(store) - n
      ]_vars

(* C37  Destination tie-break of Store.change: when two realized pairs of  *)
(* one change call target the same new key, the value stored at that key   *)
(* after the call is that of the later pair and the earlier pair's new     *)
(* value is in the returned displaced list; len() ends one lower for each  *)
(* such collision, and one lower for each new key at which the call finds  *)
(* an entry it did not remove.                                             *)
C37_TieBreak ==
    [][(target = "store" /\ call'.op = "change") =>
          LET ft == call'.from_to
          IN /\ LastWriterWins(store, ft, store', ret')
             /\ Len(store') = Len(store) - Collisions(store, ft, Keys)
                                  - Cardinality(DisplacedResidents(store, ft))
      ]_vars

(* Two realized pairs wrote key 3 with different values while the entry    *)
(* at key 3 stayed: the later value is stored, two entries were displaced. *)
C37_Witness ==
    /\ target = "store"
    /\ call.op = "change"
    /\ Len(call.from_to) = 2
    /\ OldKey(call.from_to, 1) = 1
    /\ OldKey(call.from_to, 2) = 2
    /\ NewKey(call.from_to, 1) = 3
    /\ NewKey(call.from_to, 2) = 3
    /\ NewValue(call.from_to, 1) # NewValue(call.from_to, 2)
    /\ store = <<<<3, NewValue(call.from_to, 2)>>>>
    /\ Len(ret) = 2
    /\ ret[2] = <<3, NewValue(call.from_to, 1)>>

----------------------------------------------------------------------------
(* C38  Event recording does not influence the data: two Stores, one built *)
(* with hold_events = true and one with false, that receive the same       *)
(* sequence of mutating operations hold the same entries after every step  *)
(* and return the same values from every call.                             *)
C38_RecordingTransparent ==
    (target = "pair" /\ twin.phase = "lead") =>
        /\ hold_events # twin.hold_events
        /\ store = twin.store
        /\ ret = twin.ret

(* Both Stores have run replace_mut on a present key, and the recording    *)
(* one holds the Changed event.                                            *)
C38_Witness ==
    /\ target = "pair"
    /\ twin.phase = "lead"
    /\ call.op = "replace_mut"
    /\ call.result # None
    /\ ~hold_events
    /\ events = <<>>
    /\ Len(twin.events) = 1
    /\ LastEvent(twin.events).type = "Changed"
    /\ Len(store) = 2
    /\ store = twin.store

----------------------------------------------------------------------------
(* C39  Store.update_at_idx(idx, new_value, metadata) with idx < len()     *)
(* replaces only the value at position idx: that entry keeps its key and   *)
(* every other entry is unchanged, so len() and the key order are          *)
(* unchanged; a recording Store appends exactly one Changed event, with    *)
(* from_to = [((k, old), (k, new_value))], empty removed and the call's    *)
(* metadata.                                                               *)
C39_UpdateAtIdx ==
    [][(target = "store" /\ call'.op = "update_at_idx" /\ call'.idx < Len(store)) =>
          LET i == call'.idx + 1
              k == store[i][1]
              old == store[i][2]
          IN /\ ~ret'.panic
             /\ Len(store') = Len(store)
             /\ store'[i] = <<k, call'.new_value>>
             /\ \A n \in 1..Len(store) : n # i => store'[n] = store[n]
             /\ IF hold_events
                THEN events' = Append(events,
                                   Changed(<<<<<<k, old>>, <<k, call'.new_value>>>>>>,
                                           <<>>, call'.metadata))
                ELSE events' = events
      ]_vars

(* The middle one of three entries got a new value on a recording Store.   *)
C39_Witness ==
    /\ target = "store"
    /\ hold_events
    /\ call.op = "update_at_idx"
    /\ call.idx = 1
    /\ Len(store) = 3
    /\ store[2][2] = call.new_value
    /\ LastEvent(events).type = "Changed"
    /\ LastEvent(events).from_to[1][1][2] # call.new_value

(* C40  clear on either store: after Store.clear or BagStore.clear the     *)
(* store holds no entries, len() is 0 and is_empty() is true; a recording  *)
(* store gets exactly one ClearedAll (BagStore: ClearAll) event appended   *)
(* per call, also when it was empty already, and the events recorded       *)
(* before the clear stay in the log.                                       *)
C40_Clear ==
    [][(call'.op = "clear") =>
          IF target = "store"
          THEN /\ store' = <<>>
               /\ Len(store') = 0
               /\ events' = IF hold_events THEN Append(events, ClearedAll) ELSE events
          ELSE /\ DOMAIN bag' = {}
               /\ count' = 0
               /\ bag_events' = IF hold_events THEN Append(bag_events, BagClearAll)
                                ELSE bag_events
      ]_vars

(* A clear of a recording Store that an earlier clear had emptied: the log *)
(* holds the ClearedAll of both.                                           *)
C40_Witness ==
    /\ target = "store"
    /\ hold_events
    /\ call.op = "clear"
    /\ store = <<>>
    /\ events = <<ClearedAll, ClearedAll>>

====
